---- MODULE Spec2Model ----
(***************************************************************************)
(* EEG pattern detection and ictal-region clustering (HealthHack).         *)
(*                                                                         *)
(* Times are kept as integer sample counts ("ticks"): the detectors emit   *)
(* start = i / sampleRate and end = (i + windowSize) / sampleRate with     *)
(* sampleRate = 250, so a time of t seconds is the integer 250 * t.  The   *)
(* 10 s gap tolerance of the clusterer is therefore 10 * 250 ticks.        *)
(* Divisions of the source (variance, confidence) are carried out on       *)
(* exact integer numerators and denominators.                              *)
(***************************************************************************)
EXTENDS Integers, Sequences, FiniteSets, TLC

VARIABLES
    pc,            \* position of the running handler
    parsed,        \* where the recording came from: "none" yet, a file parsed to
                   \* "channels" or to "no channels", or the upload card's "placeholder"
    channels,      \* the recording's channels: <<[name, data, events, voltage]>>
    ictalRegions,  \* the regions returned by identifyIctalRegions
    clusters,      \* the local `clusters` of identifyIctalRegions at its return
    cur,           \* detectPatterns: index of the channel being processed
    det,           \* detectPatterns: the detector that is running
    rate,          \* the sampleRate argument of the running detector
    scanI,         \* the loop variable i of the running detector
    scanned,       \* the windows examined so far: <<channel, detector, i>>
    analysis,      \* the value returned by generateAnalysisResults
    earlier,       \* the regions returned by the call of identifyIctalRegions
                   \* before the last one: [run, regions]
    card,          \* the upload component: [isLoading, fileName, toast]
    storage,       \* the localStorage entry "eegData": [present, channels, ictalRegions]
    dispatched,    \* the number of "eegDataUpdated" events dispatched
    panelRegions,  \* the ictal-regions panel: the regions its identifyIctalRegions returned
    panel,         \* the analysis panel: [eegData, analysisResults, isAnalyzing]
    timers,        \* the analysis panel's pending timeouts, each with its parsedData
    regionsEntry,  \* the localStorage entry "ictalRegions": [present, regions]
    view           \* the visualization panel: [timeWindow, isPlaying, zoomLevel, duration]

vars == <<pc, parsed, channels, ictalRegions, clusters, cur, det, rate, scanI, scanned,
          analysis, earlier, card, storage, dispatched,
                   panelRegions, panel, timers, regionsEntry, view>>

---------------------------------------------------------------------------
(* Program constants *)

sampleRate == 250
GapSeconds == 10
MinClusterEvents == 3
MaxConfidence == 95

HFO == "HFO (High Frequency Oscillation)"
IED == "IED (Intractal Epileptiform Discharge)"
RHY == "Rhythmic Discharge"
EventTypes == {HFO, IED, RHY}

---------------------------------------------------------------------------
(* Helpers *)

Range(s) == {s[i] : i \in 1..Len(s)}

MinOf(S) == CHOOSE x \in S : \A y \in S : x <= y
MaxOf(S) == CHOOSE x \in S : \A y \in S : x >= y

Max2(a, b) == IF a >= b THEN a ELSE b
Min2(a, b) == IF a <= b THEN a ELSE b

\* String.prototype.includes, by comparing sub at every position of s
Contains(s, sub) ==
    \E i \in 1..(Len(s) - Len(sub) + 1) : SubSeq(s, i, i + Len(sub) - 1) = sub

\* the substrings the program looks for in an event type
Needles == {"HFO", "IED", "Rhythmic", "rhythmic"}

\* Contains on the event types, tabulated
KnownIncludes == {<<s, sub, Contains(s, sub)>> : s \in EventTypes, sub \in Needles}

\* String.prototype.includes
Includes(s, sub) ==
    IF <<s, sub, TRUE>> \in KnownIncludes THEN TRUE
    ELSE IF <<s, sub, FALSE>> \in KnownIncludes THEN FALSE
    ELSE Contains(s, sub)

\* Math.round(num / den) for den > 0: the nearest integer, halves rounded up
RoundDiv(num, den) == (2 * num + den) \div (2 * den)

---------------------------------------------------------------------------
(* identifyIctalRegions *)

\* 1. Collect all events across channels, each with its channel's name
WithChannel(e, name) ==
    [f \in (DOMAIN e) \cup {"channel"} |-> IF f = "channel" THEN name ELSE e[f]]

RECURSIVE CollectEvents(_, _)
CollectEvents(chs, k) ==
    IF k > Len(chs) THEN << >>
    ELSE [i \in 1..Len(chs[k].events) |-> WithChannel(chs[k].events[i], chs[k].name)]
         \o CollectEvents(chs, k + 1)

\* 2. allEvents.sort((a, b) => a.start - b.start): a stable sort
EventCompare(a, b) == a.start - b.start

\* the place of s[i] after a stable sort: behind every element that compares
\* lower, and behind the equal ones that came earlier
EventRank(s, i) ==
    1 + Cardinality({j \in 1..Len(s) :
                        \/ EventCompare(s[j], s[i]) < 0
                        \/ (EventCompare(s[j], s[i]) = 0 /\ j < i)})

\* variant: the events are left in the order of their collection
SortEventsSkipped(s) == s

SortEvents(s) ==
    LET order == {<<EventRank(s, i), i>> : i \in 1..Len(s)}
    IN  [p \in 1..Len(s) |-> s[(CHOOSE r \in order : r[1] = p)[2]]]

\* 3. the greedy pass
\* variant: twice the gap tolerance
JoinsClusterLoose(event, clusterEnd) ==
    event.start <= clusterEnd + 2 * GapSeconds * sampleRate

\* variant: an event starting exactly at the tolerance does not join
JoinsClusterStrict(event, clusterEnd) ==
    event.start < clusterEnd + GapSeconds * sampleRate

JoinsCluster(event, clusterEnd) == event.start <= clusterEnd + GapSeconds * sampleRate

\* variant: the running end is overwritten by each joining event's end
ExtendEndLast(clusterEnd, event) == event.end

ExtendEnd(clusterEnd, event) == Max2(clusterEnd, event.end)

\* variant: a cluster's end takes in the gap tolerance
ClusterPadded(events, start, end) ==
    [events |-> events, start |-> start, end |-> end + GapSeconds * sampleRate]

Cluster(events, start, end) == [events |-> events, start |-> start, end |-> end]

\* one call of the forEach callback, on the state st of the locals: index is
\* the number of events handled so far, closed the clusters pushed so far
ClusterStep(st, event) ==
    IF st.index = 0
    THEN [index |-> 1, closed |-> st.closed, currentCluster |-> <<event>>,
          clusterStart |-> event.start, clusterEnd |-> event.end]
    ELSE IF JoinsCluster(event, st.clusterEnd)
    THEN [index |-> st.index + 1, closed |-> st.closed,
          currentCluster |-> Append(st.currentCluster, event),
          clusterStart |-> st.clusterStart,
          clusterEnd |-> ExtendEnd(st.clusterEnd, event)]
    ELSE [index |-> st.index + 1,
          closed |-> IF Len(st.currentCluster) > 0
                     THEN Append(st.closed,
                                 Cluster(st.currentCluster, st.clusterStart, st.clusterEnd))
                     ELSE st.closed,
          currentCluster |-> <<event>>,
          clusterStart |-> event.start, clusterEnd |-> event.end]

\* the state of the locals once allEvents.forEach has gone on from st up to
\* the event at position upto; the stretch is walked in two halves
RECURSIVE ClusterFrom(_, _, _)
ClusterFrom(evs, st, upto) ==
    IF st.index >= upto THEN st
    ELSE IF st.index + 1 = upto THEN ClusterStep(st, evs[upto])
    ELSE ClusterFrom(evs, ClusterFrom(evs, st, (st.index + upto) \div 2), upto)

\* the forEach over all events, then "Add the last cluster if it exists"
ClusterEvents(evs) ==
    LET st == ClusterFrom(evs,
                          [index |-> 0, closed |-> << >>, currentCluster |-> << >>,
                           clusterStart |-> 0, clusterEnd |-> 0],
                          Len(evs))
    IN  IF Len(st.currentCluster) > 0
        THEN Append(st.closed, Cluster(st.currentCluster, st.clusterStart, st.clusterEnd))
        ELSE st.closed

\* variant: an off-by-one minimum
KeepClusterTwo(cluster) == Len(cluster.events) >= MinClusterEvents - 1

KeepCluster(cluster) == Len(cluster.events) >= MinClusterEvents

\* clusters.filter(...)
FilterClusters(cs) == SelectSeq(cs, KeepCluster)

\* variant: the last branch tests a lower-case substring no type contains
CountTypesLowerCase(evs) ==
    LET isH(e) == Includes(e.type, "HFO")
        isI(e) == ~isH(e) /\ Includes(e.type, "IED")
        isR(e) == ~isH(e) /\ ~Includes(e.type, "IED") /\ Includes(e.type, "rhythmic")
    IN  [hfo      |-> Cardinality({i \in 1..Len(evs) : isH(evs[i])}),
         ied      |-> Cardinality({i \in 1..Len(evs) : isI(evs[i])}),
         rhythmic |-> Cardinality({i \in 1..Len(evs) : isR(evs[i])})]

\* the if / else-if chain counting event types
CountTypes(evs) ==
    LET isH(e) == Includes(e.type, "HFO")
        isI(e) == ~isH(e) /\ Includes(e.type, "IED")
        isR(e) == ~isH(e) /\ ~Includes(e.type, "IED") /\ Includes(e.type, "Rhythmic")
    IN  [hfo      |-> Cardinality({i \in 1..Len(evs) : isH(evs[i])}),
         ied      |-> Cardinality({i \in 1..Len(evs) : isI(evs[i])}),
         rhythmic |-> Cardinality({i \in 1..Len(evs) : isR(evs[i])})]

\* Array.from(channelSet): the distinct channel names in first-seen order
ChannelList(evs) ==
    LET first == {i \in 1..Len(evs) : \A j \in 1..(i - 1) : evs[j].channel # evs[i].channel}
    IN  [p \in 1..Cardinality(first) |->
            evs[CHOOSE i \in first : Cardinality({j \in first : j < i}) = p - 1].channel]

\* variant: the comparisons admit equality
SeverityInclusive(eventCount) ==
    LET totalEvents == eventCount.hfo + eventCount.ied + eventCount.rhythmic
    IN  IF (totalEvents > 0 /\ 2 * eventCount.hfo >= totalEvents) \/ totalEvents >= 10
        THEN "high"
        ELSE IF (totalEvents > 0 /\ 5 * eventCount.hfo >= totalEvents) \/ totalEvents >= 5
        THEN "medium"
        ELSE "low"

\* variant: the count thresholds halved
SeverityHalfCounts(eventCount) ==
    LET totalEvents == eventCount.hfo + eventCount.ied + eventCount.rhythmic
    IN  IF (totalEvents > 0 /\ 2 * eventCount.hfo > totalEvents) \/ totalEvents > 5
        THEN "high"
        ELSE IF (totalEvents > 0 /\ 5 * eventCount.hfo > totalEvents) \/ totalEvents > 2
        THEN "medium"
        ELSE "low"

\* hfoRatio > 0.5 || totalEvents > 10, else hfoRatio > 0.2 || totalEvents > 5
\* (hfoRatio = hfo / totalEvents is NaN when totalEvents = 0: no comparison holds)
Severity(eventCount) ==
    LET totalEvents == eventCount.hfo + eventCount.ied + eventCount.rhythmic
    IN  IF (totalEvents > 0 /\ 2 * eventCount.hfo > totalEvents) \/ totalEvents > 10
        THEN "high"
        ELSE IF (totalEvents > 0 /\ 5 * eventCount.hfo > totalEvents) \/ totalEvents > 5
        THEN "medium"
        ELSE "low"

\* variant: the rounded score is not capped
ConfidenceUncapped(totalEvents, durationTicks, involved, numChannels, jitterPct) ==
    RoundDiv((20 * sampleRate * totalEvents * numChannels + 50 * involved * durationTicks)
                * jitterPct,
             durationTicks * numChannels * 100)

\* Math.min(95, Math.round((eventDensity * 20 + channelInvolvement * 50) * jitter))
\* with eventDensity = totalEvents / ((end - start) / 250) and jitter = jitterPct / 100
Confidence(totalEvents, durationTicks, involved, numChannels, jitterPct) ==
    IF durationTicks = 0
    THEN IF totalEvents > 0 THEN MaxConfidence ELSE "NaN"
    ELSE LET num == (20 * sampleRate * totalEvents * numChannels
                     + 50 * involved * durationTicks) * jitterPct
             den == durationTicks * numChannels * 100
         IN  IF den > 0
             THEN Min2(MaxConfidence, RoundDiv(num, den))
             ELSE Min2(MaxConfidence, RoundDiv(-num, -den))

\* variant: the severity is read off the confidence score
ToRegionByConfidence(cluster, numChannels, jitterPct) ==
    LET eventCount  == CountTypes(cluster.events)
        channelSet  == ChannelList(cluster.events)
        totalEvents == eventCount.hfo + eventCount.ied + eventCount.rhythmic
        confidence  == Confidence(totalEvents, cluster.end - cluster.start,
                                  Len(channelSet), numChannels, jitterPct)
    IN  [start      |-> cluster.start,
         end        |-> cluster.end,
         channels   |-> channelSet,
         confidence |-> confidence,
         eventCount |-> eventCount,
         severity   |-> IF confidence > 30 THEN "high" ELSE "low"]

ToRegion(cluster, numChannels, jitterPct) ==
    LET eventCount  == CountTypes(cluster.events)
        channelSet  == ChannelList(cluster.events)
        totalEvents == eventCount.hfo + eventCount.ied + eventCount.rhythmic
    IN  [start      |-> cluster.start,
         end        |-> cluster.end,
         channels   |-> channelSet,
         confidence |-> Confidence(totalEvents, cluster.end - cluster.start,
                                   Len(channelSet), numChannels, jitterPct),
         eventCount |-> eventCount,
         severity   |-> Severity(eventCount)]

\* .sort(): by severity first, then by confidence, descending
SeverityOrder(s) == CASE s = "high" -> 0 [] s = "medium" -> 1 [] s = "low" -> 2

\* variant: confidence ascending
RegionCompareAscending(a, b) ==
    IF a.severity # b.severity
    THEN SeverityOrder(a.severity) - SeverityOrder(b.severity)
    ELSE a.confidence - b.confidence

RegionCompare(a, b) ==
    IF a.severity # b.severity
    THEN SeverityOrder(a.severity) - SeverityOrder(b.severity)
    ELSE b.confidence - a.confidence

\* the place of s[i] after the stable sort
RegionRank(s, i) ==
    1 + Cardinality({j \in 1..Len(s) :
                        \/ RegionCompare(s[j], s[i]) < 0
                        \/ (RegionCompare(s[j], s[i]) = 0 /\ j < i)})

SortRegions(s) ==
    LET order == {<<RegionRank(s, i), i>> : i \in 1..Len(s)}
    IN  [p \in 1..Len(s) |-> s[(CHOOSE r \in order : r[1] = p)[2]]]

\* the clusters of a recording, and the regions for one draw of the jitters
ClustersOf(chs) == ClusterEvents(SortEvents(CollectEvents(chs, 1)))

\* .map(): the regions of the kept clusters from the k-th on
RECURSIVE MapRegions(_, _, _, _)
MapRegions(kept, numChannels, jitter, k) ==
    IF k > Len(kept) THEN << >>
    ELSE <<ToRegion(kept[k], numChannels, jitter[k])>>
         \o MapRegions(kept, numChannels, jitter, k + 1)

RegionsOf(cs, numChannels, jitter) ==
    SortRegions(MapRegions(FilterClusters(cs), numChannels, jitter, 1))

---------------------------------------------------------------------------
(* The detectors.  data is 0-based in the source: At(data, j) is data[j]. *)

At(data, j) == data[j + 1]

Abs(x) == IF x < 0 THEN -x ELSE x

\* Math.sign
Sign(x) == IF x > 0 THEN 1 ELSE IF x < 0 THEN -1 ELSE 0

\* an exact quotient num / den
Rat(num, den) == [num |-> num, den |-> den]

RECURSIVE Gcd(_, _)
Gcd(a, b) == IF b = 0 THEN a ELSE Gcd(b, a % b)

\* the sum of data[a..b] and of its squares, added up by halves
RECURSIVE SumSamples(_, _, _)
SumSamples(data, a, b) ==
    IF a > b THEN 0
    ELSE IF a = b THEN At(data, a)
    ELSE SumSamples(data, a, (a + b) \div 2) + SumSamples(data, (a + b) \div 2 + 1, b)

RECURSIVE SumSquares(_, _, _)
SumSquares(data, a, b) ==
    IF a > b THEN 0
    ELSE IF a = b THEN At(data, a) * At(data, a)
    ELSE SumSquares(data, a, (a + b) \div 2) + SumSquares(data, (a + b) \div 2 + 1, b)

\* Math.floor(sampleRate * 0.1) and the like
WindowSize(d, sr) ==
    CASE d = "hfo" -> sr \div 10
      [] d = "ied" -> sr \div 5
      [] d = "rhythmic" -> sr * 3

StepSize(d, sr) ==
    CASE d = "hfo" -> sr \div 20
      [] d = "ied" -> sr \div 10
      [] d = "rhythmic" -> sr

\* the loop test i < data.length - windowSize
InLoop(i, len, W) == i < len - W

\* events.some(...): the candidate's start or its end lies inside an event
Overlapping(events, startTime, endTime) ==
    \E k \in 1..Len(events) :
        \/ (startTime >= events[k].start /\ startTime <= events[k].end)
        \/ (endTime >= events[k].start /\ endTime <= events[k].end)

\* peak-to-peak amplitude of the window [i, i + W)
PeakToPeak(data, i, W) ==
    LET vals == {At(data, j) : j \in i..(i + W - 1)}
    IN  MaxOf(vals) - MinOf(vals)

(* detectHFOs, one window *)
ZeroCrossings(data, i, W) ==
    Cardinality({j \in 1..(W - 1) :
        \/ (At(data, i + j - 1) < 0 /\ At(data, i + j) >= 0)
        \/ (At(data, i + j - 1) >= 0 /\ At(data, i + j) < 0)})

\* variant: both comparisons inverted
IsHFOInverted(data, i, W, sr) ==
    LET zeroCrossings == ZeroCrossings(data, i, W)
        sum        == SumSamples(data, i, i + W - 1)
        sumSquared == SumSquares(data, i, i + W - 1)
    IN  /\ zeroCrossings * sr < 160 * W
        /\ sumSquared * W - sum * sum < 100 * W * W

\* estimatedFreq = (zeroCrossings / 2) * (sampleRate / windowSize) > 80 and
\* variance = sumSquared / n - mean * mean > 100, cleared of their divisions
IsHFO(data, i, W, sr) ==
    LET zeroCrossings == ZeroCrossings(data, i, W)
        sum        == SumSamples(data, i, i + W - 1)
        sumSquared == SumSquares(data, i, i + W - 1)
    IN  /\ zeroCrossings * sr > 160 * W
        /\ sumSquared * W - sum * sum > 100 * W * W

\* variant: the event ends one step, not one window, after its start
detectHFOsWindowStep(data, events, i, sr) ==
    LET W == WindowSize("hfo", sr)
    IN  IF IsHFO(data, i, W, sr) /\ ~Overlapping(events, i, i + W)
        THEN Append(events,
                    [start |-> i, end |-> i + StepSize("hfo", sr), type |-> HFO,
                     amplitude |-> Rat(PeakToPeak(data, i, W), 1),
                     frequency |-> Rat(ZeroCrossings(data, i, W) * sr, 2 * W)])
        ELSE events

detectHFOsWindow(data, events, i, sr) ==
    LET W == WindowSize("hfo", sr)
    IN  IF IsHFO(data, i, W, sr) /\ ~Overlapping(events, i, i + W)
        THEN Append(events,
                    [start |-> i, end |-> i + W, type |-> HFO,
                     amplitude |-> Rat(PeakToPeak(data, i, W), 1),
                     frequency |-> Rat(ZeroCrossings(data, i, W) * sr, 2 * W)])
        ELSE events

(* detectIEDs, one window *)
\* maxAmp and maxPos: the first position of the largest absolute value, and
\* 0, 0 when no sample is non-zero
MaxAmp(data, i, W) == MaxOf({0} \cup {Abs(At(data, i + j)) : j \in 0..(W - 1)})

MaxPos(data, i, W) ==
    LET maxAmp == MaxAmp(data, i, W)
    IN  IF maxAmp = 0 THEN 0
        ELSE MinOf({j \in 0..(W - 1) : Abs(At(data, i + j)) = maxAmp})

\* five times slopeBefore and slopeAfter
SlopeBefore5(data, i, W) ==
    LET maxPos == MaxPos(data, i, W)
    IN  IF maxPos > 5 /\ maxPos < W - 5
        THEN At(data, i + maxPos) - At(data, i + maxPos - 5) ELSE 0

SlopeAfter5(data, i, W) ==
    LET maxPos == MaxPos(data, i, W)
    IN  IF maxPos > 5 /\ maxPos < W - 5
        THEN At(data, i + maxPos) - At(data, i + maxPos + 5) ELSE 0

IsIED(data, i, W) ==
    /\ MaxAmp(data, i, W) > 50
    /\ Abs(SlopeBefore5(data, i, W)) > 10 * 5
    /\ Abs(SlopeAfter5(data, i, W)) > 10 * 5
    /\ Sign(SlopeBefore5(data, i, W)) # Sign(SlopeAfter5(data, i, W))

\* estimatedFreq = 8 + Math.random() * 12, drawn for every window
detectIEDsWindow(data, events, i, sr, freq) ==
    LET W == WindowSize("ied", sr)
    IN  IF IsIED(data, i, W) /\ ~Overlapping(events, i, i + W)
        THEN Append(events,
                    [start |-> i, end |-> i + W, type |-> IED,
                     amplitude |-> Rat(MaxAmp(data, i, W), 1),
                     frequency |-> Rat(freq, 1)])
        ELSE events

(* detectRhythmicDischarges, one window *)
\* the positions pushed to peaks, in the order of the loop over j
Peaks(data, i, W) ==
    LET found == {j \in 1..(W - 2) :
                    /\ At(data, i + j) > At(data, i + j - 1)
                    /\ At(data, i + j) > At(data, i + j + 1)
                    /\ At(data, i + j) > 20}
    IN  [k \in 1..Cardinality(found) |->
            CHOOSE p \in found : Cardinality({q \in found : q < p}) = k - 1]

\* intervals.push(peaks[j] - peaks[j - 1])
Intervals(peaks) == [j \in 1..(Len(peaks) - 1) |-> peaks[j + 1] - peaks[j]]

RECURSIVE SumIntervals(_, _, _)
SumIntervals(intervals, a, b) ==
    IF a > b THEN 0
    ELSE IF a = b THEN intervals[a]
    ELSE SumIntervals(intervals, a, (a + b) \div 2)
         + SumIntervals(intervals, (a + b) \div 2 + 1, b)

RECURSIVE SumIntervalSquares(_, _, _)
SumIntervalSquares(intervals, a, b) ==
    IF a > b THEN 0
    ELSE IF a = b THEN intervals[a] * intervals[a]
    ELSE SumIntervalSquares(intervals, a, (a + b) \div 2)
         + SumIntervalSquares(intervals, (a + b) \div 2 + 1, b)

\* intervalCV = sqrt(variance) / meanInterval < 0.3, 10 < meanInterval < 100,
\* with meanInterval = total / n and variance = sumSq / n - meanInterval^2
IsRhythmic(data, i, W) ==
    LET intervals == Intervals(Peaks(data, i, W))
        n     == Len(intervals)
        total == SumIntervals(intervals, 1, n)
        sumSq == SumIntervalSquares(intervals, 1, n)
    IN  /\ n >= 3
        /\ 100 * (n * sumSq - total * total) < 9 * total * total
        /\ total > 10 * n
        /\ total < 100 * n

\* variant: the event is put in front of the list
detectRhythmicWindowFirst(data, events, i, sr) ==
    LET W == WindowSize("rhythmic", sr)
    IN  IF IsRhythmic(data, i, W) /\ ~Overlapping(events, i, i + W)
        THEN LET intervals == Intervals(Peaks(data, i, W))
             IN  <<[start |-> i, end |-> i + W, type |-> RHY,
                    amplitude |-> Rat(PeakToPeak(data, i, W), 1),
                    frequency |-> Rat(sr * Len(intervals),
                                      SumIntervals(intervals, 1, Len(intervals)))]>>
                 \o events
        ELSE events

detectRhythmicWindow(data, events, i, sr) ==
    LET W == WindowSize("rhythmic", sr)
    IN  IF IsRhythmic(data, i, W) /\ ~Overlapping(events, i, i + W)
        THEN LET intervals == Intervals(Peaks(data, i, W))
             IN  Append(events,
                        [start |-> i, end |-> i + W, type |-> RHY,
                         amplitude |-> Rat(PeakToPeak(data, i, W), 1),
                         frequency |-> Rat(sr * Len(intervals),
                                           SumIntervals(intervals, 1, Len(intervals)))])
        ELSE events

(* detectPatterns on one channel *)
\* the number of iterations of for (i = 0; i < data.length - windowSize; i += stepSize)
WindowCount(d, len, sr) ==
    IF len - WindowSize(d, sr) <= 0 THEN 0
    ELSE ((len - WindowSize(d, sr) - 1) \div StepSize(d, sr)) + 1

DetectorWindow(d, data, events, i, sr, freq) ==
    CASE d = "hfo" -> detectHFOsWindow(data, events, i, sr)
      [] d = "ied" -> detectIEDsWindow(data, events, i, sr, freq)
      [] d = "rhythmic" -> detectRhythmicWindow(data, events, i, sr)

\* the state of detector d's loop once it has gone on from st up to upto
\* iterations: done is the number of iterations made (i = done * stepSize);
\* the stretch is walked in two halves
RECURSIVE ScanFrom(_, _, _, _, _, _)
ScanFrom(d, data, st, upto, sr, freq) ==
    IF st.done >= upto THEN st
    ELSE IF st.done + 1 = upto
    THEN [done |-> upto,
          events |-> DetectorWindow(d, data, st.events, st.done * StepSize(d, sr), sr, freq)]
    ELSE ScanFrom(d, data, ScanFrom(d, data, st, (st.done + upto) \div 2, sr, freq),
                  upto, sr, freq)

Detector(d, data, events, sr, freq) ==
    ScanFrom(d, data, [done |-> 0, events |-> events],
             WindowCount(d, Len(data), sr), sr, freq).events

\* the body of detectPatterns' forEach for a channel with these samples and
\* no events yet
DetectOn(data, sr, freq) ==
    Detector("rhythmic", data,
             Detector("ied", data, Detector("hfo", data, << >>, sr, freq), sr, freq),
             sr, freq)

---------------------------------------------------------------------------
(* The numbers of generateAnalysisResults are IEEE-754 doubles.  A finite,  *)
(* non-negative double is m * 2^e with m below 2^53; m is held as three     *)
(* limbs in base 2^21, the least significant first, and is either 0 or has  *)
(* exactly 53 bits.  Every operation returns the exact result rounded to    *)
(* the nearest double, ties to the even mantissa.                           *)

Limb == 2^21

\* propagate the carries of three limbs
Carry(x0, x1, x2) ==
    LET y1 == x1 + x0 \div Limb
    IN  <<x0 % Limb, y1 % Limb, x2 + y1 \div Limb>>

MulSmall(n, k) == Carry(n[1] * k, n[2] * k, n[3] * k)

AddBig(a, b) == Carry(a[1] + b[1], a[2] + b[2], a[3] + b[3])

BitsOf(x) == Cardinality({k \in 0..30 : 2^k <= x})

BitLength(n) ==
    IF n[3] > 0 THEN 42 + BitsOf(n[3])
    ELSE IF n[2] > 0 THEN 21 + BitsOf(n[2])
    ELSE BitsOf(n[1])

RECURSIVE ShiftLeft(_, _)
ShiftLeft(n, k) ==
    IF k = 0 THEN n
    ELSE IF k >= 21 THEN ShiftLeft(<<0, n[1], n[2]>>, k - 21)
    ELSE IF k > 9 THEN ShiftLeft(MulSmall(n, 2^9), k - 9)
    ELSE MulSmall(n, 2^k)

RECURSIVE ShiftRight(_, _)
ShiftRight(n, s) ==
    IF s = 0 THEN n
    ELSE IF s >= 21 THEN ShiftRight(<<n[2], n[3], 0>>, s - 21)
    ELSE LET p == 2^s
             q == 2^(21 - s)
         IN  <<n[1] \div p + (n[2] % p) * q, n[2] \div p + (n[3] % p) * q, n[3] \div p>>

Zero == [kind |-> "number", m |-> <<0, 0, 0>>, e |-> 0]
NaN  == [kind |-> "NaN", m |-> <<0, 0, 0>>, e |-> 0]

\* the double nearest to n * 2^e; inexact says that the exact value lies
\* strictly between n * 2^e and (n + 1) * 2^e
Nearest(n, e, inexact) ==
    LET L == BitLength(n)
    IN  IF L = 0 THEN Zero
        ELSE IF L <= 53
        THEN [kind |-> "number", m |-> ShiftLeft(n, 53 - L), e |-> e - (53 - L)]
        ELSE LET s        == L - 53
                 m        == ShiftRight(n, s)
                 half     == ShiftRight(n, s - 1)
                 roundBit == half[1] % 2 = 1
                 below    == inexact \/ ShiftLeft(half, s - 1) # n
                 up       == roundBit /\ (below \/ m[1] % 2 = 1)
                 r        == IF up THEN AddBig(m, <<1, 0, 0>>) ELSE m
             IN  IF BitLength(r) > 53
                 THEN [kind |-> "number", m |-> ShiftRight(r, 1), e |-> e + s + 1]
                 ELSE [kind |-> "number", m |-> r, e |-> e + s]

\* an integer below 2^21 as a double
FromInt(k) == Nearest(<<k, 0, 0>>, 0, FALSE)

\* h / t for integers 0 <= h < 2^9 * t, t < 2^9: 63 binary places of the
\* quotient by long division, then rounded
DivDouble(h, t) ==
    IF t = 0 THEN NaN
    ELSE LET d1 == (h * Limb) \div t
             r1 == (h * Limb) % t
             d2 == (r1 * Limb) \div t
             r2 == (r1 * Limb) % t
             d3 == (r2 * Limb) \div t
             r3 == (r2 * Limb) % t
         IN  Nearest(<<d3, d2, d1>>, -63, r3 # 0)

\* a * k for an integer k up to 2^9
MulDouble(a, k) ==
    IF a.kind = "NaN" THEN NaN ELSE Nearest(MulSmall(a.m, k), a.e, FALSE)

\* a + b: the operand of the smaller exponent is aligned below nine guard bits
AddDouble(a, b) ==
    IF a.kind = "NaN" \/ b.kind = "NaN" THEN NaN
    ELSE IF a = Zero THEN b
    ELSE IF b = Zero THEN a
    ELSE LET hi    == IF a.e >= b.e THEN a ELSE b
             lo    == IF a.e >= b.e THEN b ELSE a
             diff  == hi.e - lo.e
             low   == IF diff <= 9 THEN ShiftLeft(lo.m, 9 - diff)
                      ELSE ShiftRight(lo.m, diff - 9)
             lost  == diff > 9 /\ ShiftLeft(low, diff - 9) # lo.m
         IN  Nearest(AddBig(ShiftLeft(hi.m, 9), low), hi.e - 9, lost)

\* a < b
LessDouble(a, b) ==
    /\ a.kind = "number" /\ b.kind = "number"
    /\ b # Zero
    /\ \/ a = Zero
       \/ a.e < b.e
       \/ a.e = b.e /\ \/ a.m[3] < b.m[3]
                       \/ a.m[3] = b.m[3] /\ a.m[2] < b.m[2]
                       \/ a.m[3] = b.m[3] /\ a.m[2] = b.m[2] /\ a.m[1] < b.m[1]

LessEqDouble(a, b) == a.kind = "number" /\ b.kind = "number" /\ ~LessDouble(b, a)

---------------------------------------------------------------------------
(* generateAnalysisResults (analysis panel) *)

\* the jitter 0.7 + Math.random() * 0.3, in hundredths
Jitters == {70, 85, 100}

\* the results of Math.random() within one call of generateAnalysisResults,
\* in hundredths; the calls are numbered by event (k) and by use in the event
DrawPatterns == {"low", "mixed"}

Draw(pattern, k, use) ==
    IF pattern = "low" THEN 0 ELSE (37 * (3 * k + use)) % 100

RECURSIVE AllChannelEvents(_, _)
AllChannelEvents(chs, k) ==
    IF k > Len(chs) THEN << >> ELSE chs[k].events \o AllChannelEvents(chs, k + 1)

PatternCounts(chs) ==
    LET c == CountTypes(AllChannelEvents(chs, 1))
    IN  [hfo |-> c.hfo, ied |-> c.ied, rhythmic |-> c.rhythmic,
         total |-> c.hfo + c.ied + c.rhythmic]

\* event.amplitude || Math.round(channel.voltage * (Math.random() * 0.5 + 0.5))
EventAmplitude(event, voltage, d) ==
    IF "amplitude" \in DOMAIN event /\ event.amplitude.num # 0
    THEN event.amplitude
    ELSE Rat(RoundDiv(voltage * (d + 100), 200), 1)

\* 80 + random * 70, 8 + random * 12, 1 + random * 4, or the initial 0
EventFrequency(type, d) ==
    IF Includes(type, "HFO") THEN Rat(8000 + 70 * d, 100)
    ELSE IF Includes(type, "IED") THEN Rat(800 + 12 * d, 100)
    ELSE IF Includes(type, "Rhythmic") THEN Rat(100 + 4 * d, 100)
    ELSE Rat(0, 1)

\* the entry pushed to allEvents for the k-th event of the recording (its
\* confidence, another random draw, is read by nothing)
EventFeatures(event, channel, k, pattern) ==
    [type      |-> event.type,
     channel   |-> channel.name,
     amplitude |-> EventAmplitude(event, channel.voltage, Draw(pattern, k, 0)),
     frequency |-> EventFrequency(event.type, Draw(pattern, k, 1)),
     duration  |-> Rat(event.end - event.start, 1)]

RECURSIVE AllEvents(_, _, _, _)
AllEvents(chs, c, base, pattern) ==
    IF c > Len(chs) THEN << >>
    ELSE [i \in 1..Len(chs[c].events) |->
             EventFeatures(chs[c].events[i], chs[c], base + i - 1, pattern)]
         \o AllEvents(chs, c + 1, base + Len(chs[c].events), pattern)

\* the least common multiple of the denominators of rs
CommonDen(rs) ==
    LET dens  == {rs[j].den : j \in 1..Len(rs)}
        m     == MaxOf(dens)
        mults == {d \in {m * k : k \in 1..m} : \A x \in dens : d % x = 0}
    IN  MinOf(mults)

\* the numerators of rs[a..b] over the denominator D, added up
RECURSIVE SumNum(_, _, _, _)
SumNum(rs, D, a, b) ==
    IF a > b THEN 0
    ELSE IF a = b THEN rs[a].num * (D \div rs[a].den)
    ELSE SumNum(rs, D, a, (a + b) \div 2) + SumNum(rs, D, (a + b) \div 2 + 1, b)

\* length > 0 ? reduce((sum, e) => sum + e.f, 0) / length : 0; the sum and
\* the quotient are kept exact
Mean(rs) ==
    IF Len(rs) = 0 THEN Rat(0, 1)
    ELSE LET D == CommonDen(rs)
         IN  Rat(SumNum(rs, D, 1, Len(rs)), D * Len(rs))

\* length > 0 ? Math.max(...) : 0
MaxRat(rs) ==
    IF Len(rs) = 0 THEN Rat(0, 1)
    ELSE CHOOSE r \in Range(rs) : \A q \in Range(rs) : q.num * r.den <= r.num * q.den

Field(evs, f) == [j \in 1..Len(evs) |-> evs[j][f]]

Features(evs) ==
    [amplitude |-> Mean(Field(evs, "amplitude")),
     frequency |-> Mean(Field(evs, "frequency")),
     duration  |-> Mean(Field(evs, "duration"))]

FeaturesByType(allEvents) ==
    [hfo      |-> Features(SelectSeq(allEvents, LAMBDA ev : Includes(ev.type, "HFO"))),
     ied      |-> Features(SelectSeq(allEvents, LAMBDA ev : Includes(ev.type, "IED"))),
     rhythmic |-> Features(SelectSeq(allEvents, LAMBDA ev : Includes(ev.type, "Rhythmic")))]

FeatureStats(allEvents) ==
    [avgAmplitude |-> Mean(Field(allEvents, "amplitude")),
     avgFrequency |-> Mean(Field(allEvents, "frequency")),
     avgDuration  |-> Mean(Field(allEvents, "duration")),
     maxAmplitude |-> MaxRat(Field(allEvents, "amplitude")),
     maxFrequency |-> MaxRat(Field(allEvents, "frequency"))]

\* variant: the division is not guarded
PercentageUnguarded(count, total) == MulDouble(DivDouble(count, total), 100)

\* total > 0 ? (count / total) * 100 : 0
Percentage(count, total) ==
    IF total > 0 THEN MulDouble(DivDouble(count, total), 100) ELSE Zero

\* variant: the normalised counts are not capped at 1
EpilepsyRiskUncapped(counts, numRegions) ==
    RoundDiv(8 * counts.hfo + 6 * counts.ied + 2 * counts.rhythmic + 40 * numRegions, 10)

\* Math.round((min(hfo/50,1)*0.4 + min(ied/50,1)*0.3 + min(rhythmic/50,1)*0.1
\*             + min(regions/5,1)*0.2) * 100): the exact sum is a multiple of
\* 0.2, so that no rounding of the doubles moves it across a half
EpilepsyRisk(counts, numRegions) ==
    RoundDiv(8 * Min2(counts.hfo, 50) + 6 * Min2(counts.ied, 50)
             + 2 * Min2(counts.rhythmic, 50) + 40 * Min2(numRegions, 5), 10)

\* data.channels.length || 1
PanelChannelCount(chs) == IF Len(chs) = 0 THEN 1 ELSE Len(chs)

\* the counts, percentages and averages (lines 370 to 466)
PatternSummary(chs, pattern) ==
    LET counts    == PatternCounts(chs)
        allEvents == AllEvents(chs, 1, 0, pattern)
    IN  [patternCounts      |-> counts,
         patternPercentages |-> [hfo      |-> Percentage(counts.hfo, counts.total),
                                 ied      |-> Percentage(counts.ied, counts.total),
                                 rhythmic |-> Percentage(counts.rhythmic, counts.total)],
         featuresByType     |-> FeaturesByType(allEvents),
         featureStats       |-> FeatureStats(allEvents)]

AnalysisResults(summary, regions) ==
    [patternCounts      |-> summary.patternCounts,
     patternPercentages |-> summary.patternPercentages,
     featuresByType     |-> summary.featuresByType,
     featureStats       |-> summary.featureStats,
     ictalRegions       |-> regions,
     epilepsyRisk       |-> EpilepsyRisk(summary.patternCounts, Len(regions))]

---------------------------------------------------------------------------
(* Inputs of processEegData: the channels createChannelsFromData hands on.  *)
(* A channel's samples are a run of one-second blocks: silence, a regular   *)
(* train of peaks, a fast oscillation, and the two superposed.  A channel   *)
(* after the first starts with the sample of absolute value above 50 that   *)
(* made createChannelsFromData close the channel before it.                 *)

MaxBlocks == 4
ZeroSeconds == 10

channelNames == <<"C4", "CP5", "Fz", "P3", "P4", "C3", "F4", "O2", "T8", "T7", "F3">>
voltages == <<388, 384, 382, 369, 367, 365, 355, 345, 341, 341, 330>>  \* tenths

BlockKinds == {"Z", "R", "H", "M"}

BlockSample(kind, j) ==
    CASE kind = "Z" -> 0
      [] kind = "R" -> IF j % 25 = 0 THEN 30 ELSE 0
      [] kind = "H" -> IF j % 2 = 1 THEN -30 ELSE 10
      [] kind = "M" -> IF j % 25 = 0 THEN 30 ELSE IF (j % 25) % 2 = 1 THEN -30 ELSE 10

BlockData(blocks) ==
    [j \in 1..(Len(blocks) * sampleRate) |->
        BlockSample(blocks[((j - 1) \div sampleRate) + 1], (j - 1) % sampleRate)]

\* k1 seconds of one kind followed by k2 seconds of another
BlockRun(a, k1, b, k2) == [m \in 1..(k1 + k2) |-> IF m <= k1 THEN a ELSE b]

BlockStrings(n) ==
    {BlockRun(a, k1, b, k2) :
        a \in BlockKinds, b \in BlockKinds, k1 \in 1..n, k2 \in 0..(n - 1)}

Channel(k, data) ==
    [name |-> channelNames[k], data |-> data, events |-> << >>, voltage |-> voltages[k]]

\* createChannelsFromData closes a channel of more than 100 samples before a
\* sample whose absolute value is above this
SplitThreshold == 50

Recordings ==
    {<<Channel(1, BlockData(b))>> : b \in {r \in BlockStrings(MaxBlocks) : Len(r) <= MaxBlocks}}
    \cup {<<Channel(1, [j \in 1..(ZeroSeconds * sampleRate) |-> 0])>>}
    \cup {<<Channel(1, BlockData(b1)),
            Channel(2, [BlockData(b2) EXCEPT ![1] = SplitThreshold + 10])>> :
          b1 \in BlockStrings(1), b2 \in {r \in BlockStrings(2) : Len(r) = 2}}

\* pad the shorter channels with zeros up to the longest
PadChannels(chs) ==
    LET maxLength == MaxOf({Len(chs[k].data) : k \in 1..Len(chs)})
    IN  [k \in 1..Len(chs) |->
            [chs[k] EXCEPT !.data =
                [j \in 1..maxLength |-> IF j <= Len(chs[k].data) THEN chs[k].data[j] ELSE 0]]]

---------------------------------------------------------------------------
(* createDemoData: eleven channels, each with 5 + floor(random * 6) events  *)
(* of random start, duration and type.  The random draws are taken from a   *)
(* family indexed by a seed; the synthetic samples are not modelled (no     *)
(* detector runs on them).                                                  *)

MaxSeed == 3

DemoEventCount(c, seed) == 5 + ((c * seed) % 6)

DemoEvent(c, i, seed) ==
    LET burst    == (c + i + seed) % 3
        start    == burst * 120 * sampleRate + c * 500 + i * 50
        duration == 25 + ((c + 2 * i + seed) % 4) * 225
        type     == <<HFO, IED, RHY>>[((c * i + seed) % 3) + 1]
    IN  [start |-> start, end |-> Min2(600 * sampleRate, start + duration), type |-> type,
         amplitude |-> Rat(voltages[c] * (3 + ((i + seed) % 5)), 100),
         frequency |-> Rat(IF type = HFO THEN 80 + 7 * i
                           ELSE IF type = IED THEN 8 + i ELSE 1 + (i % 4), 1)]

DemoChannels(seed) ==
    [c \in 1..Len(channelNames) |->
        [name |-> channelNames[c], data |-> << >>,
         events |-> [i \in 1..DemoEventCount(c, seed) |-> DemoEvent(c, i, seed)],
         voltage |-> voltages[c]]]

---------------------------------------------------------------------------
(* The upload pipeline *)

IedFrequencies == {8, 14, 19}

\* no call of identifyIctalRegions before the last one
NoRun == [run |-> FALSE, regions |-> << >>]

\* the component after mounting: useState(false), useState(null), no toast
NoFile == [isLoading |-> FALSE, fileName |-> "", toast |-> "none"]

\* localStorage without the key "eegData"
NoEntry == [present |-> FALSE, channels |-> << >>, ictalRegions |-> << >>]

\* the analysis panel after mounting without stored data: useState(null),
\* useState(null), useState(false); `of` is the parsedData that results were
\* computed from
NoResults ==
    [present |-> FALSE, of |-> NoEntry,
     value |-> AnalysisResults(PatternSummary(<< >>, "low"), << >>)]

NoPanel == [eegData |-> NoEntry, analysisResults |-> NoResults, isAnalyzing |-> FALSE]

\* localStorage without the key "ictalRegions"
NoRegionsEntry == [present |-> FALSE, of |-> NoEntry, regions |-> << >>]

\* handleDataUpdate of the analysis panel, called by the dispatch of
\* "eegDataUpdated" when the entry "eegData" is stored: the new values of
\* panel, timers and regionsEntry
PanelOnUpdate(stored) ==
    IF stored.present
    THEN [panel |-> [eegData |-> stored, analysisResults |-> NoResults, isAnalyzing |-> TRUE],
          timers |-> Append(timers, stored),
          regionsEntry |-> regionsEntry]
    ELSE [panel |-> [panel EXCEPT !.eegData = NoEntry, !.analysisResults = NoResults],
          timers |-> timers,
          regionsEntry |-> NoRegionsEntry]

\* a time in seconds as a quotient in lowest terms
TimeOf(num, den) ==
    LET g == Gcd(Abs(num), den)
    IN  Rat(num \div g, den \div g)

\* the visualization panel after mounting: useState([0, 60]), useState(false),
\* useState(1) for the zoom level (kept as its exponent of 1.5), and no
\* recording (duration 0 stands for eegData = null)
NoView == [timeWindow |-> <<TimeOf(0, 1), TimeOf(60, 1)>>, isPlaying |-> FALSE,
           zoomLevel |-> 0, duration |-> 0]

Init ==
    /\ pc = "idle"
    /\ parsed = "none"
    /\ channels = << >>
    /\ ictalRegions = << >>
    /\ clusters = << >>
    /\ cur = 0
    /\ det = "none"
    /\ rate = sampleRate
    /\ scanI = 0
    /\ scanned = {}
    /\ analysis = "none"
    /\ earlier = NoRun
    /\ card = NoFile
    /\ storage = NoEntry
    /\ dispatched = 0
    /\ panelRegions = << >>
    /\ panel = NoPanel
    /\ timers = << >>
    /\ regionsEntry = NoRegionsEntry
    /\ view = NoView

\* processEegData when createChannelsFromData found channels: pad them and
\* enter detectPatterns
ProcessEegData ==
    /\ pc = "idle"
    /\ \E p \in Recordings :
          channels' = PadChannels(p)
    /\ parsed' = "channels"
    /\ pc' = "loop"
    /\ cur' = 1
    /\ det' = "hfo"
    /\ scanI' = 0
    /\ UNCHANGED <<ictalRegions, clusters, rate, scanned, analysis,
                 earlier, card, storage, dispatched,
                   panelRegions, panel, timers, regionsEntry, view>>

\* processEegData when channels.length === 0: return createDemoData()
ProcessEegDataNoChannels ==
    /\ pc = "idle"
    /\ parsed' = "no channels"
    /\ \E seed \in 1..MaxSeed :
          \E demo \in {DemoChannels(seed)} :
            \E cs \in {ClustersOf(demo)} :
              \E jitter \in [1..Len(FilterClusters(cs)) -> Jitters] :
                /\ channels' = demo
                /\ clusters' = cs
                /\ ictalRegions' = RegionsOf(cs, Len(demo), jitter)
    /\ pc' = "done"
    /\ UNCHANGED <<cur, det, rate, scanI, scanned, analysis,
                 earlier, card, storage, dispatched,
                   panelRegions, panel, timers, regionsEntry, view>>

\* handleLoadDemo of the upload card: its createDemoData has no channels
HandleLoadDemo ==
    /\ pc = "idle"
    /\ parsed' = "placeholder"
    /\ channels' = << >>
    /\ pc' = "done"
    /\ UNCHANGED <<ictalRegions, clusters, cur, det, rate, scanI, scanned, analysis,
                 earlier, card, storage, dispatched,
                   panelRegions, panel, timers, regionsEntry, view>>

\* variant: the overlap test reads the events of every channel
DetectHFOsAllChannels ==
    /\ pc = "loop"
    /\ det = "hfo"
    /\ InLoop(scanI, Len(channels[cur].data), WindowSize("hfo", rate))
    /\ channels' = [channels EXCEPT ![cur].events =
                        IF Overlapping(AllChannelEvents(channels, 1), scanI,
                                       scanI + WindowSize("hfo", rate))
                        THEN @
                        ELSE detectHFOsWindow(channels[cur].data, @, scanI, rate)]
    /\ scanned' = scanned \cup {<<cur, "hfo", scanI>>}
    /\ scanI' = scanI + StepSize("hfo", rate)
    /\ UNCHANGED <<pc, parsed, ictalRegions, clusters, cur, det, rate, analysis,
                 earlier, card, storage, dispatched,
                   panelRegions, panel, timers, regionsEntry, view>>

\* one iteration of detectHFOs' loop over the channel cur
DetectHFOs ==
    /\ pc = "loop"
    /\ det = "hfo"
    /\ InLoop(scanI, Len(channels[cur].data), WindowSize("hfo", rate))
    /\ channels' = [channels EXCEPT ![cur].events =
                        detectHFOsWindow(channels[cur].data, channels[cur].events, scanI, rate)]
    /\ scanned' = scanned \cup {<<cur, "hfo", scanI>>}
    /\ scanI' = scanI + StepSize("hfo", rate)
    /\ UNCHANGED <<pc, parsed, ictalRegions, clusters, cur, det, rate, analysis,
                 earlier, card, storage, dispatched,
                   panelRegions, panel, timers, regionsEntry, view>>

\* one iteration of detectIEDs' loop; the frequency it would report is random
DetectIEDs ==
    /\ pc = "loop"
    /\ det = "ied"
    /\ InLoop(scanI, Len(channels[cur].data), WindowSize("ied", rate))
    /\ \E freq \in IedFrequencies :
          channels' = [channels EXCEPT ![cur].events =
                          detectIEDsWindow(channels[cur].data, channels[cur].events,
                                           scanI, rate, freq)]
    /\ scanned' = scanned \cup {<<cur, "ied", scanI>>}
    /\ scanI' = scanI + StepSize("ied", rate)
    /\ UNCHANGED <<pc, parsed, ictalRegions, clusters, cur, det, rate, analysis,
                 earlier, card, storage, dispatched,
                   panelRegions, panel, timers, regionsEntry, view>>

\* one iteration of detectRhythmicDischarges' loop
DetectRhythmicDischarges ==
    /\ pc = "loop"
    /\ det = "rhythmic"
    /\ InLoop(scanI, Len(channels[cur].data), WindowSize("rhythmic", rate))
    /\ channels' = [channels EXCEPT ![cur].events =
                        detectRhythmicWindow(channels[cur].data, channels[cur].events,
                                             scanI, rate)]
    /\ scanned' = scanned \cup {<<cur, "rhythmic", scanI>>}
    /\ scanI' = scanI + StepSize("rhythmic", rate)
    /\ UNCHANGED <<pc, parsed, ictalRegions, clusters, cur, det, rate, analysis,
                 earlier, card, storage, dispatched,
                   panelRegions, panel, timers, regionsEntry, view>>

\* a detector's loop ends: detectPatterns goes on to the next detector, the
\* next channel, or returns
DetectorReturns ==
    /\ pc = "loop"
    /\ ~InLoop(scanI, Len(channels[cur].data), WindowSize(det, rate))
    /\ scanI' = 0
    /\ IF det = "hfo" THEN det' = "ied" /\ UNCHANGED <<pc, cur>>
       ELSE IF det = "ied" THEN det' = "rhythmic" /\ UNCHANGED <<pc, cur>>
       ELSE IF cur < Len(channels) THEN det' = "hfo" /\ cur' = cur + 1 /\ UNCHANGED pc
       ELSE det' = "none" /\ pc' = "identify" /\ UNCHANGED cur
    /\ UNCHANGED <<parsed, channels, ictalRegions, clusters, rate, scanned, analysis,
                 earlier, card, storage, dispatched,
                   panelRegions, panel, timers, regionsEntry, view>>

\* identifyIctalRegions(channels)
IdentifyIctalRegions ==
    /\ pc \in {"identify", "input"}
    /\ \E cs \in {ClustersOf(channels)} :
          \E jitter \in [1..Len(FilterClusters(cs)) -> Jitters] :
            /\ clusters' = cs
            /\ ictalRegions' = RegionsOf(cs, Len(channels), jitter)
    /\ pc' = "done"
    /\ UNCHANGED <<parsed, channels, cur, det, rate, scanI, scanned, analysis,
                 earlier, card, storage, dispatched,
                   panelRegions, panel, timers, regionsEntry, view>>

\* the analysis panel: generateAnalysisResults on the stored recording
GenerateAnalysisResults ==
    /\ pc = "done"
    /\ \E pattern \in DrawPatterns :
          \E summary \in {PatternSummary(channels, pattern)} :
            \E cs \in {ClustersOf(channels)} :
              \E jitter \in [1..Len(FilterClusters(cs)) -> Jitters] :
                analysis' = AnalysisResults(summary,
                                RegionsOf(cs, PanelChannelCount(channels), jitter))
    /\ pc' = "analysed"
    /\ UNCHANGED <<parsed, channels, ictalRegions, clusters, cur, det, rate, scanI, scanned,
                 earlier, card, storage, dispatched,
                   panelRegions, panel, timers, regionsEntry, view>>

Next ==
    \/ ProcessEegData
    \/ ProcessEegDataNoChannels
    \/ HandleLoadDemo
    \/ DetectHFOs
    \/ DetectIEDs
    \/ DetectRhythmicDischarges
    \/ DetectorReturns
    \/ IdentifyIctalRegions
    \/ GenerateAnalysisResults

Spec == Init /\ [][Next]_vars

---------------------------------------------------------------------------
(* The three detectors called on one channel with a sampleRate argument    *)
(* other than the 250 that detectPatterns passes: the window and step      *)
(* lengths are derived from it.                                            *)

ScanRates == {5, 10, 20, 40, sampleRate}

InitScan ==
    /\ pc = "loop"
    /\ \E b \in BlockStrings(1) :
          channels = <<Channel(1, BlockData(b))>>
    /\ parsed = "channels"
    /\ ictalRegions = << >>
    /\ clusters = << >>
    /\ cur = 1
    /\ det = "hfo"
    /\ rate \in ScanRates
    /\ scanI = 0
    /\ scanned = {}
    /\ analysis = "none"
    /\ earlier = NoRun
    /\ card = NoFile
    /\ storage = NoEntry
    /\ dispatched = 0
    /\ panelRegions = << >>
    /\ panel = NoPanel
    /\ timers = << >>
    /\ regionsEntry = NoRegionsEntry
    /\ view = NoView

NextScan ==
    \/ DetectHFOs
    \/ DetectIEDs
    \/ DetectRhythmicDischarges
    \/ DetectorReturns

SpecScan == InitScan /\ [][NextScan]_vars

---------------------------------------------------------------------------
(* detectPatterns called on two channels in either order: every ordered    *)
(* pair of sample lists is an input, each list being some seconds of one   *)
(* kind of block followed by as many seconds of another.                   *)

OrderSeconds == 2

OrderData ==
    {BlockData(BlockRun(a, OrderSeconds, b, OrderSeconds)) :
        a \in {"H", "R", "M"}, b \in {"Z", "H", "R"}}

InitOrder ==
    /\ pc = "loop"
    /\ \E d1 \in OrderData : \E d2 \in OrderData :
          channels = <<Channel(1, d1), Channel(2, d2)>>
    /\ parsed = "channels"
    /\ ictalRegions = << >>
    /\ clusters = << >>
    /\ cur = 1
    /\ det = "hfo"
    /\ rate = sampleRate
    /\ scanI = 0
    /\ scanned = {}
    /\ analysis = "none"
    /\ earlier = NoRun
    /\ card = NoFile
    /\ storage = NoEntry
    /\ dispatched = 0
    /\ panelRegions = << >>
    /\ panel = NoPanel
    /\ timers = << >>
    /\ regionsEntry = NoRegionsEntry
    /\ view = NoView

NextOrder ==
    \/ DetectHFOs
    \/ DetectIEDs
    \/ DetectRhythmicDischarges
    \/ DetectorReturns

SpecOrder == InitOrder /\ [][NextOrder]_vars

---------------------------------------------------------------------------
(* detectIEDs called on one channel that is silent but for one spike: a    *)
(* sample of absolute value 60 at any position, the two samples on either  *)
(* side of it at half that value, and the samples 5 before and 5 after it  *)
(* at a value of either sign, up to the spike's own height.                *)

SpikeSamples == 76

SpikeHeights == {60, -60}

SpikeSides == {-60, -55, 0, 55, 60}

SpikeData(p, h, before, after) ==
    [j \in 1..SpikeSamples |->
        IF j - 1 = p THEN h
        ELSE IF j - 1 = p - 5 THEN before
        ELSE IF j - 1 = p + 5 THEN after
        ELSE IF Abs(j - 1 - p) <= 2 THEN h \div 2
        ELSE 0]

SpikeInputs ==
    {SpikeData(p, h, before, after) :
        p \in 0..(SpikeSamples - 1), h \in SpikeHeights,
        before \in SpikeSides, after \in SpikeSides}

InitSpike ==
    /\ pc = "loop"
    /\ \E data \in SpikeInputs :
          channels = <<Channel(1, data)>>
    /\ parsed = "channels"
    /\ ictalRegions = << >>
    /\ clusters = << >>
    /\ cur = 1
    /\ det = "ied"
    /\ rate = sampleRate
    /\ scanI = 0
    /\ scanned = {}
    /\ analysis = "none"
    /\ earlier = NoRun
    /\ card = NoFile
    /\ storage = NoEntry
    /\ dispatched = 0
    /\ panelRegions = << >>
    /\ panel = NoPanel
    /\ timers = << >>
    /\ regionsEntry = NoRegionsEntry
    /\ view = NoView

NextSpike ==
    \/ DetectIEDs
    \/ DetectorReturns

SpecSpike == InitSpike /\ [][NextSpike]_vars

---------------------------------------------------------------------------
(* Inputs of the clustering specification: event lists as the recording's  *)
(* producers make them (the three type strings, end > start), on two       *)
(* channels.  Each channel's list is a sub-list of a pool written in an    *)
(* order that is not the time order; the pools hold equal starts across    *)
(* channels, an event nested in a longer one, an event starting exactly    *)
(* 10 s after the running cluster end, and events further than 10 s away.  *)

MaxEvents == 6

Ev(s, e, t) == [start |-> s, end |-> e, type |-> t]

PoolA ==
    << Ev(6100, 6125, HFO), Ev(0, 25, HFO), Ev(250, 1000, RHY), Ev(500, 525, IED),
       Ev(3500, 3525, IED), Ev(6200, 6950, RHY), Ev(9500, 9525, HFO) >>

PoolB ==
    << Ev(3500, 3525, HFO), Ev(0, 25, IED), Ev(6100, 6125, IED), Ev(6150, 6175, HFO),
       Ev(36, 61, HFO), Ev(9500, 10250, RHY), Ev(9600, 9625, IED) >>

RECURSIVE SubList(_, _, _)
SubList(pool, keep, k) ==
    IF k > Len(pool) THEN << >>
    ELSE (IF k \in keep THEN <<pool[k]>> ELSE << >>) \o SubList(pool, keep, k + 1)

ClusterInputs ==
    { << [name |-> "C4",  data |-> << >>, events |-> SubList(PoolA, ka, 1), voltage |-> 388],
         [name |-> "CP5", data |-> << >>, events |-> SubList(PoolB, kb, 1), voltage |-> 384] >> :
      <<ka, kb>> \in { p \in (SUBSET (1..Len(PoolA))) \X (SUBSET (1..Len(PoolB))) :
                          Cardinality(p[1]) + Cardinality(p[2]) <= MaxEvents } }

\* Event lists given by their numbers of HFO, IED and rhythmic events: the
\* events are 0.1 s long and follow each other at a fixed distance, the HFO
\* events first; they alternate between the two channels, or all lie on the
\* first.
MaxCount == 4

Spacings == {0, 100, 700}

CountedEvent(k, h, i, spacing) ==
    Ev(k * spacing, k * spacing + 25, IF k < h THEN HFO ELSE IF k < h + i THEN IED ELSE RHY)

CountedChannels(h, i, r, spacing, both) ==
    LET onFirst(k)  == ~both \/ k % 2 = 0
        all         == [k \in 1..(h + i + r) |-> CountedEvent(k - 1, h, i, spacing)]
        first       == {k \in 1..(h + i + r) : onFirst(k - 1)}
        second      == (1..(h + i + r)) \ first
        pick(S)     == [p \in 1..Cardinality(S) |->
                           all[CHOOSE k \in S : Cardinality({j \in S : j < k}) = p - 1]]
    IN  << [name |-> "C4",  data |-> << >>, events |-> pick(first),  voltage |-> 388],
           [name |-> "CP5", data |-> << >>, events |-> pick(second), voltage |-> 384] >>

CountInputs ==
    {CountedChannels(h, i, r, spacing, both) :
        h \in 0..MaxCount, i \in 0..MaxCount, r \in 0..MaxCount,
        spacing \in Spacings, both \in BOOLEAN}

InitCluster ==
    /\ pc = "input"
    /\ parsed = "none"
    /\ channels \in ClusterInputs \cup CountInputs
    /\ ictalRegions = << >>
    /\ clusters = << >>
    /\ cur = 0
    /\ det = "none"
    /\ rate = sampleRate
    /\ scanI = 0
    /\ scanned = {}
    /\ analysis = "none"
    /\ earlier = NoRun
    /\ card = NoFile
    /\ storage = NoEntry
    /\ dispatched = 0
    /\ panelRegions = << >>
    /\ panel = NoPanel
    /\ timers = << >>
    /\ regionsEntry = NoRegionsEntry
    /\ view = NoView

NextCluster == IdentifyIctalRegions

SpecCluster == InitCluster /\ [][NextCluster]_vars

---------------------------------------------------------------------------
(* handleFileChange of the upload card: the file is checked and read,       *)
(* processEegData runs (the pipeline above, from "idle" to "done"), the     *)
(* result is stored under "eegData" and "eegDataUpdated" is dispatched.     *)
(* arrayBuffer(), processEegData and localStorage.setItem can throw (a      *)
(* read error; new Float32Array(byteLength / 4) on a length that is no      *)
(* multiple of 4; a full storage): the catch block reports the failure.     *)
(* The handler of the second upload component differs in the file names it  *)
(* accepts and in the texts of its toasts only.                             *)

\* no file chosen, a .mat file and a file of another format
FileNames == {"", "recording.mat", "recording.edf"}

\* String.prototype.endsWith
EndsWith(s, suffix) ==
    Len(s) >= Len(suffix) /\ SubSeq(s, Len(s) - Len(suffix) + 1, Len(s)) = suffix

\* the entry an earlier click on "load demo" has stored: no channels
PlaceholderEntry == [present |-> TRUE, channels |-> << >>, ictalRegions |-> << >>]

\* variant: the catch block removes the stored entry
CatchEntryRemoved(entry) == NoEntry

\* the stored entry after the catch block (console.error and a toast)
CatchEntry(entry) == entry

InitUpload ==
    /\ pc = "ready"
    /\ parsed = "none"
    /\ channels = << >>
    /\ ictalRegions = << >>
    /\ clusters = << >>
    /\ cur = 0
    /\ det = "none"
    /\ rate = sampleRate
    /\ scanI = 0
    /\ scanned = {}
    /\ analysis = "none"
    /\ earlier = NoRun
    /\ card = NoFile
    /\ storage \in {NoEntry, PlaceholderEntry}
    /\ dispatched = 0
    /\ panelRegions = << >>
    /\ panel = NoPanel
    /\ timers = << >>
    /\ regionsEntry = NoRegionsEntry
    /\ view = NoView

\* handleFileChange up to the await of file.arrayBuffer()
HandleFileChange ==
    /\ pc = "ready"
    /\ \E name \in FileNames :
          IF name = ""
          THEN UNCHANGED <<pc, card>>
          ELSE IF ~EndsWith(name, ".mat")
          THEN /\ card' = [card EXCEPT !.toast = "Invalid file format"]
               /\ UNCHANGED pc
          ELSE /\ card' = [card EXCEPT !.fileName = name, !.isLoading = TRUE]
               /\ pc' = "reading"
    /\ UNCHANGED <<parsed, channels, ictalRegions, clusters, cur, det, rate, scanI,
                   scanned, analysis, earlier, storage, dispatched,
                   panelRegions, panel, timers, regionsEntry, view>>

\* file.arrayBuffer() resolves: processEegData is called
ArrayBufferResolves ==
    /\ pc = "reading"
    /\ pc' = "idle"
    /\ UNCHANGED <<parsed, channels, ictalRegions, clusters, cur, det, rate, scanI,
                   scanned, analysis, earlier, card, storage, dispatched,
                   panelRegions, panel, timers, regionsEntry, view>>

\* file.arrayBuffer() rejects: catch and finally
ArrayBufferRejects ==
    /\ pc = "reading"
    /\ storage' = CatchEntry(storage)
    /\ card' = [card EXCEPT !.toast = "Error processing file", !.isLoading = FALSE]
    /\ pc' = "failed"
    /\ UNCHANGED <<parsed, channels, ictalRegions, clusters, cur, det, rate, scanI,
                   scanned, analysis, earlier, dispatched,
                   panelRegions, panel, timers, regionsEntry, view>>

\* processEegData throws before it returns: catch and finally
ProcessEegDataThrows ==
    /\ pc \in {"idle", "loop", "identify"}
    /\ storage' = CatchEntry(storage)
    /\ card' = [card EXCEPT !.toast = "Error processing file", !.isLoading = FALSE]
    /\ pc' = "failed"
    /\ UNCHANGED <<parsed, channels, ictalRegions, clusters, cur, det, rate, scanI,
                   scanned, analysis, earlier, dispatched,
                   panelRegions, panel, timers, regionsEntry, view>>

\* localStorage.setItem("eegData", JSON.stringify(processedData))
SetItem ==
    /\ pc = "done"
    /\ storage' = [present |-> TRUE, channels |-> channels, ictalRegions |-> ictalRegions]
    /\ pc' = "stored"
    /\ UNCHANGED <<parsed, channels, ictalRegions, clusters, cur, det, rate, scanI,
                   scanned, analysis, earlier, card, dispatched,
                   panelRegions, panel, timers, regionsEntry, view>>

\* JSON.stringify or localStorage.setItem throws, nothing is written: catch
\* and finally
SetItemThrows ==
    /\ pc = "done"
    /\ storage' = CatchEntry(storage)
    /\ card' = [card EXCEPT !.toast = "Error processing file", !.isLoading = FALSE]
    /\ pc' = "failed"
    /\ UNCHANGED <<parsed, channels, ictalRegions, clusters, cur, det, rate, scanI,
                   scanned, analysis, earlier, dispatched,
                   panelRegions, panel, timers, regionsEntry, view>>

\* window.dispatchEvent(new Event("eegDataUpdated")), the toast, and finally
DispatchEegDataUpdated ==
    /\ pc = "stored"
    /\ dispatched' = dispatched + 1
    /\ card' = [card EXCEPT !.toast = "File processed successfully", !.isLoading = FALSE]
    /\ pc' = "notified"
    /\ panel' = PanelOnUpdate(storage).panel
    /\ timers' = PanelOnUpdate(storage).timers
    /\ regionsEntry' = PanelOnUpdate(storage).regionsEntry
    /\ UNCHANGED <<parsed, channels, ictalRegions, clusters, cur, det, rate, scanI,
                   scanned, analysis, earlier, storage, panelRegions, view>>

NextUpload ==
    \/ HandleFileChange
    \/ ArrayBufferResolves
    \/ ArrayBufferRejects
    \/ ProcessEegData
    \/ ProcessEegDataNoChannels
    \/ DetectHFOs
    \/ DetectIEDs
    \/ DetectRhythmicDischarges
    \/ DetectorReturns
    \/ IdentifyIctalRegions
    \/ ProcessEegDataThrows
    \/ SetItem
    \/ SetItemThrows
    \/ DispatchEegDataUpdated

SpecUpload == InitUpload /\ [][NextUpload]_vars

---------------------------------------------------------------------------
(* identifyIctalRegions called twice on the same channels.  The events are  *)
(* listed in the order of their starts on the first of two channels: a      *)
(* burst of n1 events 2.8 s apart and, 12 s after it, a burst of n2 events; *)
(* the first h events are HFO, the next i are IED, the others rhythmic.     *)

MaxBurst == 4

RerunEvent(k, n1, h, i) ==
    LET start == k * 700 + (IF k >= n1 THEN 12 * sampleRate ELSE 0)
    IN  Ev(start, start + 25, IF k < h THEN HFO ELSE IF k < h + i THEN IED ELSE RHY)

RerunChannels(n1, n2, h, i) ==
    << [name |-> "C4",  data |-> << >>, voltage |-> 388,
        events |-> [k \in 1..(n1 + n2) |-> RerunEvent(k - 1, n1, h, i)]],
       [name |-> "CP5", data |-> << >>, voltage |-> 384, events |-> << >>] >>

RerunInputs ==
    {RerunChannels(n1, n2, h, i) : n1 \in 0..MaxBurst, n2 \in 0..MaxBurst,
                                   h \in 0..2, i \in 0..2}

InitRerun ==
    /\ pc = "input"
    /\ parsed = "none"
    /\ channels \in RerunInputs
    /\ ictalRegions = << >>
    /\ clusters = << >>
    /\ cur = 0
    /\ det = "none"
    /\ rate = sampleRate
    /\ scanI = 0
    /\ scanned = {}
    /\ analysis = "none"
    /\ earlier = NoRun
    /\ card = NoFile
    /\ storage = NoEntry
    /\ dispatched = 0
    /\ panelRegions = << >>
    /\ panel = NoPanel
    /\ timers = << >>
    /\ regionsEntry = NoRegionsEntry
    /\ view = NoView

\* identifyIctalRegions(channels), called once more on the same channels
IdentifyIctalRegionsAgain ==
    /\ pc = "done"
    /\ \E cs \in {ClustersOf(channels)} :
          \E jitter \in [1..Len(FilterClusters(cs)) -> Jitters] :
            /\ clusters' = cs
            /\ ictalRegions' = RegionsOf(cs, Len(channels), jitter)
    /\ earlier' = [run |-> TRUE, regions |-> ictalRegions]
    /\ UNCHANGED <<pc, parsed, channels, cur, det, rate, scanI, scanned, analysis,
                   card, storage, dispatched,
                   panelRegions, panel, timers, regionsEntry, view>>

NextRerun ==
    \/ IdentifyIctalRegions
    \/ IdentifyIctalRegionsAgain

SpecRerun == InitRerun /\ [][NextRerun]_vars

---------------------------------------------------------------------------
(* identifyIctalRegions called on a recording and then on the same          *)
(* recording with its channels and the events of each channel in another    *)
(* order.  The events are sub-lists of two pools with equal starts inside a *)
(* channel and across the channels; an event at 12 s is within 10 s of the  *)
(* end of a long event that starts together with a short one.               *)

MaxPermEvents == 5

PermPoolA ==
    << Ev(0, 25, HFO), Ev(0, 750, RHY), Ev(3000, 3025, IED), Ev(3000, 3100, HFO) >>

PermPoolB ==
    << Ev(0, 25, IED), Ev(3000, 3025, HFO), Ev(6000, 6025, RHY) >>

PermInputs ==
    { << [name |-> "C4",  data |-> << >>, events |-> SubList(PermPoolA, ka, 1), voltage |-> 388],
         [name |-> "CP5", data |-> << >>, events |-> SubList(PermPoolB, kb, 1), voltage |-> 384] >> :
      <<ka, kb>> \in { q \in (SUBSET (1..Len(PermPoolA))) \X (SUBSET (1..Len(PermPoolB))) :
                          Cardinality(q[1]) + Cardinality(q[2]) <= MaxPermEvents } }

\* the permutations of 1..n
Perms(n) == {f \in [1..n -> 1..n] : \A a \in 1..n : \A b \in 1..n : f[a] = f[b] => a = b}

\* the channels in the order g, the events of channel c in the order fs[c]
Permuted(chs, g, fs) ==
    [c \in 1..Len(chs) |->
        [chs[g[c]] EXCEPT !.events =
            [k \in 1..Len(chs[g[c]].events) |-> chs[g[c]].events[fs[g[c]][k]]]]]

EventOrders(chs) ==
    {fs \in [1..Len(chs) -> UNION {Perms(Len(chs[c].events)) : c \in 1..Len(chs)}] :
        \A c \in 1..Len(chs) : fs[c] \in Perms(Len(chs[c].events))}

InitPermute ==
    /\ pc = "input"
    /\ parsed = "none"
    /\ channels \in PermInputs
    /\ ictalRegions = << >>
    /\ clusters = << >>
    /\ cur = 0
    /\ det = "none"
    /\ rate = sampleRate
    /\ scanI = 0
    /\ scanned = {}
    /\ analysis = "none"
    /\ earlier = NoRun
    /\ card = NoFile
    /\ storage = NoEntry
    /\ dispatched = 0
    /\ panelRegions = << >>
    /\ panel = NoPanel
    /\ timers = << >>
    /\ regionsEntry = NoRegionsEntry
    /\ view = NoView

\* identifyIctalRegions(channels) on the recording in another order
IdentifyIctalRegionsPermuted ==
    /\ pc = "done"
    /\ \E g \in Perms(Len(channels)) : \E fs \in EventOrders(channels) :
          \E chs \in {Permuted(channels, g, fs)} :
            \E cs \in {ClustersOf(chs)} :
              \E jitter \in [1..Len(FilterClusters(cs)) -> Jitters] :
                /\ channels' = chs
                /\ clusters' = cs
                /\ ictalRegions' = RegionsOf(cs, Len(chs), jitter)
    /\ earlier' = [run |-> TRUE, regions |-> ictalRegions]
    /\ pc' = "permuted"
    /\ UNCHANGED <<parsed, cur, det, rate, scanI, scanned, analysis,
                   card, storage, dispatched,
                   panelRegions, panel, timers, regionsEntry, view>>

NextPermute ==
    \/ IdentifyIctalRegions
    \/ IdentifyIctalRegionsPermuted

SpecPermute == InitPermute /\ [][NextPermute]_vars

---------------------------------------------------------------------------
(* The three copies of identifyIctalRegions called on the same channels:    *)
(* the one of the EEG processor, the one generateAnalysisResults of the     *)
(* analysis panel calls, and the one of the ictal-regions panel.  The       *)
(* copies of the panels take data with data.channels, return [] when that   *)
(* is no array, and divide by data.channels.length || 1.  The inputs are    *)
(* two bursts of events on the first of two channels, events dealt to both  *)
(* channels, and a recording without channels.                              *)

CopyInputs ==
    {RerunChannels(n1, n2, h, i) : n1 \in {0, 3}, n2 \in {0, 2, 4}, h \in 0..2, i \in 0..1}
    \cup {CountedChannels(h, i, 1, 100, TRUE) : h \in 1..2, i \in 1..2}
    \cup {<< >>}

InitCopies ==
    /\ pc = "input"
    /\ parsed = "none"
    /\ channels \in CopyInputs
    /\ ictalRegions = << >>
    /\ clusters = << >>
    /\ cur = 0
    /\ det = "none"
    /\ rate = sampleRate
    /\ scanI = 0
    /\ scanned = {}
    /\ analysis = "none"
    /\ earlier = NoRun
    /\ card = NoFile
    /\ storage = NoEntry
    /\ dispatched = 0
    /\ panelRegions = << >>
    /\ panel = NoPanel
    /\ timers = << >>
    /\ regionsEntry = NoRegionsEntry
    /\ view = NoView

\* variant: the panel's copy keeps the clusters of two events
IdentifyIctalRegionsOfPanelKeepsTwo ==
    /\ pc = "analysed"
    /\ \E cs \in {ClustersOf(channels)} :
          \E jitter \in [1..Len(SelectSeq(cs, KeepClusterTwo)) -> Jitters] :
            panelRegions' = SortRegions(MapRegions(SelectSeq(cs, KeepClusterTwo),
                                                   PanelChannelCount(channels), jitter, 1))
    /\ pc' = "listed"
    /\ UNCHANGED <<parsed, channels, ictalRegions, clusters, cur, det, rate, scanI,
                   scanned, analysis, earlier, card, storage, dispatched,
                   panel, timers, regionsEntry, view>>

\* identifyIctalRegions of the ictal-regions panel on data = {channels}
IdentifyIctalRegionsOfPanel ==
    /\ pc = "analysed"
    /\ \E cs \in {ClustersOf(channels)} :
          \E jitter \in [1..Len(FilterClusters(cs)) -> Jitters] :
            panelRegions' = RegionsOf(cs, PanelChannelCount(channels), jitter)
    /\ pc' = "listed"
    /\ UNCHANGED <<parsed, channels, ictalRegions, clusters, cur, det, rate, scanI,
                   scanned, analysis, earlier, card, storage, dispatched,
                   panel, timers, regionsEntry, view>>

NextCopies ==
    \/ IdentifyIctalRegions
    \/ GenerateAnalysisResults
    \/ IdentifyIctalRegionsOfPanel

SpecCopies == InitCopies /\ [][NextCopies]_vars

---------------------------------------------------------------------------
(* The upload card and the analysis panel together.  Each action is one     *)
(* task of the page: a handler with the listeners that its dispatch of      *)
(* "eegDataUpdated" calls, or the callback of a timeout.  processEegData is  *)
(* taken by its result, one of two recordings with one region each.  The    *)
(* timeouts all wait 2000 ms and run in the order they were set.            *)

MaxNotifications == 3

PanelRecordings ==
    {[present |-> TRUE, channels |-> chs,
      ictalRegions |-> RegionsOf(ClustersOf(chs), Len(chs), <<100>>)] :
        chs \in {RerunChannels(3, 0, 2, 1), RerunChannels(0, 3, 0, 1)}}

InitPanel ==
    /\ pc = "ready"
    /\ parsed = "none"
    /\ channels = << >>
    /\ ictalRegions = << >>
    /\ clusters = << >>
    /\ cur = 0
    /\ det = "none"
    /\ rate = sampleRate
    /\ scanI = 0
    /\ scanned = {}
    /\ analysis = "none"
    /\ earlier = NoRun
    /\ card = NoFile
    /\ storage = NoEntry
    /\ dispatched = 0
    /\ panelRegions = << >>
    /\ panel = NoPanel
    /\ timers = << >>
    /\ regionsEntry = NoRegionsEntry
    /\ view = NoView

\* handleFileChange from the return of file.arrayBuffer(): processEegData,
\* setItem, the dispatch with the panel's listener, the toast, and finally
ProcessAndStore ==
    /\ pc = "reading"
    /\ dispatched < MaxNotifications
    /\ \E stored \in PanelRecordings :
          /\ storage' = stored
          /\ panel' = PanelOnUpdate(stored).panel
          /\ timers' = PanelOnUpdate(stored).timers
    /\ dispatched' = dispatched + 1
    /\ card' = [card EXCEPT !.toast = "File processed successfully", !.isLoading = FALSE]
    /\ pc' = "ready"
    /\ UNCHANGED <<parsed, channels, ictalRegions, clusters, cur, det, rate, scanI,
                   scanned, analysis, earlier, panelRegions, regionsEntry, view>>

\* handleLoadDemo with the panel's listener
LoadDemoAndNotify ==
    /\ pc = "ready"
    /\ dispatched < MaxNotifications
    /\ storage' = PlaceholderEntry
    /\ panel' = PanelOnUpdate(PlaceholderEntry).panel
    /\ timers' = PanelOnUpdate(PlaceholderEntry).timers
    /\ dispatched' = dispatched + 1
    /\ card' = [fileName |-> "demo_eeg_data.mat", toast |-> "Demo data loaded",
                isLoading |-> FALSE]
    /\ UNCHANGED <<pc, parsed, channels, ictalRegions, clusters, cur, det, rate, scanI,
                   scanned, analysis, earlier, panelRegions, regionsEntry, view>>

\* the Remove button, shown with a file name and disabled while loading:
\* removeItem("eegData"), the dispatch, and the panel's listener
RemoveData ==
    /\ card.fileName # ""
    /\ ~card.isLoading
    /\ dispatched < MaxNotifications
    /\ card' = [card EXCEPT !.fileName = ""]
    /\ storage' = NoEntry
    /\ dispatched' = dispatched + 1
    /\ panel' = PanelOnUpdate(NoEntry).panel
    /\ regionsEntry' = PanelOnUpdate(NoEntry).regionsEntry
    /\ UNCHANGED <<pc, parsed, channels, ictalRegions, clusters, cur, det, rate, scanI,
                   scanned, analysis, earlier, panelRegions, timers, view>>

\* the callback of the oldest pending timeout, with the parsedData of the
\* notification that set it
TimerFires ==
    /\ timers # << >>
    /\ \E data \in {Head(timers)} : \E pattern \in DrawPatterns :
          \E summary \in {PatternSummary(data.channels, pattern)} :
            \E cs \in {ClustersOf(data.channels)} :
              \E jitter \in [1..Len(FilterClusters(cs)) -> Jitters] :
                \E results \in {AnalysisResults(summary,
                                    RegionsOf(cs, PanelChannelCount(data.channels), jitter))} :
                  /\ panel' = [panel EXCEPT
                                  !.analysisResults =
                                      [present |-> TRUE, of |-> data, value |-> results],
                                  !.isAnalyzing = FALSE]
                  /\ regionsEntry' = [present |-> TRUE, of |-> data,
                                      regions |-> results.ictalRegions]
    /\ timers' = Tail(timers)
    /\ UNCHANGED <<pc, parsed, channels, ictalRegions, clusters, cur, det, rate, scanI,
                   scanned, analysis, earlier, card, storage, dispatched, panelRegions, view>>

NextPanel ==
    \/ HandleFileChange
    \/ ProcessAndStore
    \/ LoadDemoAndNotify
    \/ RemoveData
    \/ TimerFires

SpecPanel == InitPanel /\ [][NextPanel]_vars

---------------------------------------------------------------------------
(* The visualization panel: the time window under the zoom, pan, skip and  *)
(* playback controls.  Times are exact quotients of seconds.               *)

\* (a * x + b * y) / d for two times x and y
TimeMix(a, x, b, y, d) ==
    TimeOf(a * x.num * y.den + b * y.num * x.den, d * x.den * y.den)

TimeLess(x, y) == x.num * y.den < y.num * x.den

TimeLeq(x, y) == x.num * y.den <= y.num * x.den

\* Math.max and Math.min of two times
TimeMax(x, y) == IF TimeLess(x, y) THEN y ELSE x

TimeMin(x, y) == IF TimeLess(y, x) THEN y ELSE x

\* eegData?.duration || 3600
MaxTime(v) == IF v.duration = 0 THEN TimeOf(3600, 1) ELSE TimeOf(v.duration, 1)

\* timeWindow[1] - timeWindow[0]
TimeRange(w) == TimeMix(-1, w[1], 1, w[2], 1)

\* handleZoomIn: the centre is (s + e) / 2 and the new range (e - s) / 1.5, so
\* the window is [max(0, (5s + e) / 6), (s + 5e) / 6]
ZoomInWindow(w) ==
    <<TimeMax(TimeOf(0, 1), TimeMix(5, w[1], 1, w[2], 6)), TimeMix(1, w[1], 5, w[2], 6)>>

\* handleZoomOut: the new range is (e - s) * 1.5, so the window is
\* [max(0, (5s - e) / 4), (5e - s) / 4]
ZoomOutWindow(w) ==
    <<TimeMax(TimeOf(0, 1), TimeMix(5, w[1], -1, w[2], 4)), TimeMix(-1, w[1], 5, w[2], 4)>>

\* handlePanLeft: panAmount = timeRange * 0.25
PanLeftWindow(w) ==
    <<TimeMax(TimeOf(0, 1), TimeMix(5, w[1], -1, w[2], 4)),
      TimeMax(TimeRange(w), TimeMix(1, w[1], 3, w[2], 4))>>

\* handlePanRight
PanRightWindow(w, maxTime) ==
    <<TimeMin(TimeMix(1, maxTime, -1, TimeRange(w), 1), TimeMix(3, w[1], 1, w[2], 4)),
      TimeMin(maxTime, TimeMix(-1, w[1], 5, w[2], 4))>>

\* handleSkipToStart
SkipToStartWindow(w) == <<TimeOf(0, 1), TimeRange(w)>>

\* handleSkipToEnd
SkipToEndWindow(w, maxTime) == <<TimeMix(1, maxTime, -1, TimeRange(w), 1), maxTime>>

\* the updater of the playback effect: step = 0.2
PlaybackStep(w) == <<TimeMix(5, w[1], 1, TimeOf(1, 1), 5), TimeMix(5, w[2], 1, TimeOf(1, 1), 5)>>

\* the zoom level stays within 1.5^-MaxZoom .. 1.5^MaxZoom
MaxZoom == 1

\* the windows followed are those whose times are quotients with a
\* denominator of at most MaxDen
MaxDen == 5

ViewFits(w) == w[1].den <= MaxDen /\ w[2].den <= MaxDen

\* the durations of the recordings shown, in seconds
ViewDurations == {60, 61}

InitView ==
    /\ pc = "viewing"
    /\ parsed = "none"
    /\ channels = << >>
    /\ ictalRegions = << >>
    /\ clusters = << >>
    /\ cur = 0
    /\ det = "none"
    /\ rate = sampleRate
    /\ scanI = 0
    /\ scanned = {}
    /\ analysis = "none"
    /\ earlier = NoRun
    /\ card = NoFile
    /\ storage = NoEntry
    /\ dispatched = 0
    /\ panelRegions = << >>
    /\ panel = NoPanel
    /\ timers = << >>
    /\ regionsEntry = NoRegionsEntry
    /\ \E d \in ViewDurations : view = [NoView EXCEPT !.duration = d]

ViewUnchanged ==
    UNCHANGED <<pc, parsed, channels, ictalRegions, clusters, cur, det, rate, scanI,
                scanned, analysis, earlier, card, storage, dispatched, panelRegions,
                panel, timers, regionsEntry>>

HandleZoomIn ==
    /\ pc = "viewing"
    /\ view.duration # 0
    /\ view.zoomLevel < MaxZoom
    /\ ViewFits(ZoomInWindow(view.timeWindow))
    /\ view' = [view EXCEPT !.timeWindow = ZoomInWindow(view.timeWindow),
                            !.zoomLevel = view.zoomLevel + 1]
    /\ ViewUnchanged

HandleZoomOut ==
    /\ pc = "viewing"
    /\ view.duration # 0
    /\ view.zoomLevel > -MaxZoom
    /\ ViewFits(ZoomOutWindow(view.timeWindow))
    /\ view' = [view EXCEPT !.timeWindow = ZoomOutWindow(view.timeWindow),
                            !.zoomLevel = view.zoomLevel - 1]
    /\ ViewUnchanged

HandlePanLeft ==
    /\ pc = "viewing"
    /\ view.duration # 0
    /\ ViewFits(PanLeftWindow(view.timeWindow))
    /\ view' = [view EXCEPT !.timeWindow = PanLeftWindow(view.timeWindow)]
    /\ ViewUnchanged

HandlePanRight ==
    /\ pc = "viewing"
    /\ view.duration # 0
    /\ ViewFits(PanRightWindow(view.timeWindow, MaxTime(view)))
    /\ view' = [view EXCEPT !.timeWindow = PanRightWindow(view.timeWindow, MaxTime(view))]
    /\ ViewUnchanged

HandleSkipToStart ==
    /\ pc = "viewing"
    /\ view.duration # 0
    /\ ViewFits(SkipToStartWindow(view.timeWindow))
    /\ view' = [view EXCEPT !.timeWindow = SkipToStartWindow(view.timeWindow)]
    /\ ViewUnchanged

HandleSkipToEnd ==
    /\ pc = "viewing"
    /\ view.duration # 0
    /\ ViewFits(SkipToEndWindow(view.timeWindow, MaxTime(view)))
    /\ view' = [view EXCEPT !.timeWindow = SkipToEndWindow(view.timeWindow, MaxTime(view))]
    /\ ViewUnchanged

\* the play button: setIsPlaying(!isPlaying)
TogglePlaying ==
    /\ pc = "viewing"
    /\ view.duration # 0
    /\ view' = [view EXCEPT !.isPlaying = ~view.isPlaying]
    /\ ViewUnchanged

\* one animation frame more than 50 ms after the last step
Animate ==
    /\ pc = "viewing"
    /\ view.isPlaying
    /\ view.duration # 0
    /\ ViewFits(PlaybackStep(view.timeWindow))
    /\ LET next == PlaybackStep(view.timeWindow)
       IN  IF TimeLeq(TimeOf(view.duration, 1), next[2])
           THEN view' = [view EXCEPT !.isPlaying = FALSE]
           ELSE view' = [view EXCEPT !.timeWindow = next]
    /\ ViewUnchanged

NextView ==
    \/ HandleZoomIn
    \/ HandleZoomOut
    \/ HandlePanLeft
    \/ HandlePanRight
    \/ HandleSkipToStart
    \/ HandleSkipToEnd
    \/ TogglePlaying
    \/ Animate

SpecView == InitView /\ [][NextView]_vars

---------------------------------------------------------------------------
(* Inputs of the analysis panel: stored recordings given by their numbers   *)
(* of HFO, IED and rhythmic events.  The events are 0.1 s long and lie on   *)
(* the first of two channels, dealt in turn to groups that start 20 s       *)
(* apart, so that every group of at least 3 events becomes one region; the  *)
(* events carry no amplitude.  The regions stored with the recording are    *)
(* not read by the panel.                                                   *)

MaxSummaryCount == 5

SummaryEvent(k, h, i, groups) ==
    LET start == (k % groups) * 20 * sampleRate + (k \div groups) * 25
    IN  Ev(start, start + 25, IF k < h THEN HFO ELSE IF k < h + i THEN IED ELSE RHY)

SummaryChannels(h, i, r, groups) ==
    << [name |-> "C4",  data |-> << >>, voltage |-> 388,
        events |-> [k \in 1..(h + i + r) |-> SummaryEvent(k - 1, h, i, groups)]],
       [name |-> "CP5", data |-> << >>, voltage |-> 384, events |-> << >>] >>

\* all small counts in one group, and counts around the caps of the risk
\* score in up to six groups
SummaryProfiles ==
    {<<h, i, r, 1>> : h \in 0..MaxSummaryCount, i \in 0..MaxSummaryCount,
                      r \in 0..MaxSummaryCount}
    \cup {<<51, 0, 0, 1>>, <<0, 51, 0, 1>>, <<0, 0, 51, 1>>, <<50, 50, 50, 1>>,
          <<49, 50, 51, 4>>, <<6, 6, 6, 6>>, <<51, 51, 51, 6>>}

SummaryInputs == {SummaryChannels(q[1], q[2], q[3], q[4]) : q \in SummaryProfiles}

InitSummary ==
    /\ pc = "done"
    /\ parsed = "channels"
    /\ channels \in SummaryInputs
    /\ ictalRegions = << >>
    /\ clusters = << >>
    /\ cur = 0
    /\ det = "none"
    /\ rate = sampleRate
    /\ scanI = 0
    /\ scanned = {}
    /\ analysis = "none"
    /\ earlier = NoRun
    /\ card = NoFile
    /\ storage = NoEntry
    /\ dispatched = 0
    /\ panelRegions = << >>
    /\ panel = NoPanel
    /\ timers = << >>
    /\ regionsEntry = NoRegionsEntry
    /\ view = NoView

NextSummary == GenerateAnalysisResults

SpecSummary == InitSummary /\ [][NextSummary]_vars

---------------------------------------------------------------------------
(* Properties of identifyIctalRegions *)

Returned == pc = "done"

\* the clusters a returned region can have come from: same stored bounds
ClustersFor(r) == {c \in Range(clusters) : c.start = r.start /\ c.end = r.end}

StartsOf(evs) == {evs[i].start : i \in 1..Len(evs)}
EndsOf(evs)   == {evs[i].end : i \in 1..Len(evs)}

\* C2: every returned region has start = the minimum start and end = the
\* maximum end over the events that were placed in its cluster.
C2_RegionBounds ==
    Returned =>
        \A k \in 1..Len(ictalRegions) :
            /\ ClustersFor(ictalRegions[k]) # {}
            /\ \A c \in ClustersFor(ictalRegions[k]) :
                  /\ ictalRegions[k].start = MinOf(StartsOf(c.events))
                  /\ ictalRegions[k].end = MaxOf(EndsOf(c.events))

\* a region whose cluster holds an event that ends after the cluster's last
\* event, from an input list that was not in time order
C2_Witness ==
    /\ Returned
    /\ \E k \in 1..Len(ictalRegions) : \E c \in ClustersFor(ictalRegions[k]) :
          /\ c.events[Len(c.events)].end < ictalRegions[k].end
          /\ Len(c.events) >= MinClusterEvents
    /\ \E n \in 1..Len(channels) : \E i \in 1..(Len(channels[n].events) - 1) :
          channels[n].events[i].start > channels[n].events[i + 1].start

\* C3: for every returned region, eventCount.hfo + eventCount.ied +
\* eventCount.rhythmic equals the number of events in the region's cluster.
C3_CountsSum ==
    Returned =>
        \A k \in 1..Len(ictalRegions) :
            /\ ClustersFor(ictalRegions[k]) # {}
            /\ \A c \in ClustersFor(ictalRegions[k]) :
                  ictalRegions[k].eventCount.hfo + ictalRegions[k].eventCount.ied
                     + ictalRegions[k].eventCount.rhythmic = Len(c.events)

\* a region that counts events of all three types
C3_Witness ==
    /\ Returned
    /\ \E k \in 1..Len(ictalRegions) :
          /\ ictalRegions[k].eventCount.hfo > 0
          /\ ictalRegions[k].eventCount.ied > 0
          /\ ictalRegions[k].eventCount.rhythmic > 0

\* C4: no returned region comes from a cluster with fewer than 3 events, and
\* every cluster with 3 or more events yields exactly one region.
C4_MinThree ==
    Returned =>
        /\ \A k \in 1..Len(ictalRegions) :
              /\ ClustersFor(ictalRegions[k]) # {}
              /\ \A c \in ClustersFor(ictalRegions[k]) : Len(c.events) >= 3
        /\ \A i \in 1..Len(clusters) :
              Len(clusters[i].events) >= 3 =>
                 Cardinality({k \in 1..Len(ictalRegions) :
                                 clusters[i] \in ClustersFor(ictalRegions[k])}) = 1

\* clusters of one, two and at least three events side by side
C4_Witness ==
    /\ Returned
    /\ Len(ictalRegions) >= 1
    /\ \E i \in 1..Len(clusters) : Len(clusters[i].events) = 2
    /\ \E i \in 1..Len(clusters) : Len(clusters[i].events) = 1

\* C5: for any two adjacent returned regions, either the first has the
\* strictly higher severity (high before medium before low), or they have
\* equal severity and the first's confidence is >= the second's, whatever
\* jitter was drawn.
SeverityRank(s) == CASE s = "high" -> 3 [] s = "medium" -> 2 [] s = "low" -> 1

C5_RegionOrder ==
    Returned =>
        \A k \in 1..(Len(ictalRegions) - 1) :
            \/ SeverityRank(ictalRegions[k].severity) > SeverityRank(ictalRegions[k + 1].severity)
            \/ /\ ictalRegions[k].severity = ictalRegions[k + 1].severity
               /\ ictalRegions[k].confidence >= ictalRegions[k + 1].confidence

\* two regions of equal severity and different confidence, the later cluster first
C5_Witness ==
    /\ Returned
    /\ Len(ictalRegions) >= 2
    /\ ictalRegions[1].severity = ictalRegions[2].severity
    /\ ictalRegions[1].confidence > ictalRegions[2].confidence
    /\ ictalRegions[1].start > ictalRegions[2].start

\* C6: events further apart than the 10 s tolerance never share a cluster:
\* the clusters are consecutive runs of the start-sorted events, and inside a
\* cluster every event but the first starts at most 10 s after the maximum
\* end of the cluster's earlier events.
RECURSIVE Concat(_, _)
Concat(cs, k) == IF k > Len(cs) THEN << >> ELSE cs[k].events \o Concat(cs, k + 1)

C6_GapSplits ==
    Returned =>
        /\ LET all == Concat(clusters, 1)
           IN  \A i \in 1..(Len(all) - 1) : all[i].start <= all[i + 1].start
        /\ \A i \in 1..Len(clusters) : \A k \in 2..Len(clusters[i].events) :
              clusters[i].events[k].start
                 <= MaxOf({clusters[i].events[j].end : j \in 1..(k - 1)}) + 10 * 250
        /\ \A i \in 1..(Len(clusters) - 1) :
              clusters[i + 1].events[1].start
                 > MaxOf(EndsOf(clusters[i].events)) + 10 * 250

\* two clusters of three or more events each, more than 10 s apart
C6_Witness ==
    /\ Returned
    /\ \E i \in 1..(Len(clusters) - 1) :
          /\ Len(clusters[i].events) >= 3
          /\ Len(clusters[i + 1].events) >= 3

\* the events of all clusters in the order of the greedy pass, each with the
\* index of its cluster
Placed ==
    LET at == UNION {{<<i, k>> : k \in 1..Len(clusters[i].events)} : i \in 1..Len(clusters)}
        before(q) == {r \in at : r[1] < q[1] \/ (r[1] = q[1] /\ r[2] < q[2])}
    IN  [p \in 1..Cardinality(at) |->
            LET q == CHOOSE r \in at : Cardinality(before(r)) = p - 1
            IN  [cluster |-> q[1], event |-> clusters[q[1]].events[q[2]]]]

\* the number of places of x in the sequence s
Occurrences(s, x) == Cardinality({j \in 1..Len(s) : s[j] = x})

\* C19: in the greedy pass an event is put in the cluster of the event before
\* it exactly when its start is at most 10 s after the maximum end of the
\* events already in that cluster, otherwise it opens the next cluster; and
\* every event of the recording is in exactly one cluster
C19_GreedyJoin ==
    Returned =>
        LET placed == Placed
            input  == CollectEvents(channels, 1)
        IN  /\ \A p \in 2..Len(placed) :
                  LET i          == placed[p - 1].cluster
                      clusterEnd == MaxOf({placed[j].event.end :
                                             j \in {m \in 1..(p - 1) : placed[m].cluster = i}})
                  IN  /\ placed[p].cluster \in {i, i + 1}
                      /\ placed[p].cluster = i
                            <=> placed[p].event.start <= clusterEnd + 10 * sampleRate
            /\ Len(placed) = Len(input)
            /\ \A j \in 1..Len(input) :
                  Occurrences([p \in 1..Len(placed) |-> placed[p].event], input[j])
                     = Occurrences(input, input[j])

\* one event joined a cluster by starting exactly 10 s after the cluster's
\* running end, and a later event opened a new cluster
C19_Witness ==
    /\ Returned
    /\ Len(clusters) >= 2
    /\ \E k \in 2..Len(clusters[1].events) :
          clusters[1].events[k].start
             = MaxOf({clusters[1].events[j].end : j \in 1..(k - 1)}) + 10 * sampleRate

\* C20: with hfoRatio = eventCount.hfo / totalEvents, a region of at least 3
\* events is "high" iff hfoRatio > 0.5 or totalEvents > 10, otherwise
\* "medium" iff hfoRatio > 0.2 or totalEvents > 5, otherwise "low"
C20_SeverityRule ==
    Returned =>
        \A k \in 1..Len(ictalRegions) :
            LET r           == ictalRegions[k]
                totalEvents == r.eventCount.hfo + r.eventCount.ied + r.eventCount.rhythmic
                isHigh      == 10 * r.eventCount.hfo > 5 * totalEvents \/ totalEvents > 10
                isMedium    == 10 * r.eventCount.hfo > 2 * totalEvents \/ totalEvents > 5
            IN  /\ totalEvents >= 3
                /\ r.severity = "high" <=> isHigh
                /\ r.severity = "medium" <=> (~isHigh /\ isMedium)
                /\ r.severity = "low" <=> (~isHigh /\ ~isMedium)

\* a region that is high by its 11 events alone, its HFO share being at
\* most a half
C20_Witness ==
    /\ Returned
    /\ \E k \in 1..Len(ictalRegions) :
          /\ ictalRegions[k].severity = "high"
          /\ ictalRegions[k].eventCount.hfo = 3
          /\ ictalRegions[k].eventCount.ied = 4
          /\ ictalRegions[k].eventCount.rhythmic = 4

---------------------------------------------------------------------------
(* Properties of the detectors and of the upload pipeline *)

\* detectPatterns has returned for the uploaded recording
Detected == pc \in {"identify", "done", "analysed"} /\ parsed = "channels"

Intersect(a, b) == a.start <= b.end /\ b.start <= a.end

\* C1: after the three detectors have run over a channel, any two distinct
\* events of the channel have closed time ranges [start, end] that do not
\* intersect.
C1_PairwiseDisjoint ==
    Detected =>
        \A k \in 1..Len(channels) :
            \A i \in 1..Len(channels[k].events) : \A j \in 1..Len(channels[k].events) :
                i # j => ~Intersect(channels[k].events[i], channels[k].events[j])

\* C7, as stated: a recording parsed to 0 channels yields empty event and
\* region lists and is not replaced by other data.
C7_EmptyStaysEmpty ==
    (parsed = "no channels" /\ pc \in {"done", "analysed"}) =>
        /\ channels = << >>
        /\ ictalRegions = << >>

AllZeroPercentages(a) ==
    /\ a.patternPercentages.hfo = Zero
    /\ a.patternPercentages.ied = Zero
    /\ a.patternPercentages.rhythmic = Zero

\* C7, amended: a stored recording with 0 channels is analysed to an empty
\* region list, three percentages equal to 0 and epilepsyRisk 0; a file that
\* processEegData parses to 0 channels is replaced by the demo recording of
\* eleven channels, each with 5 to 10 events.
C7_EmptyRecording ==
    /\ (pc = "analysed" /\ channels = << >>) =>
          /\ analysis.ictalRegions = << >>
          /\ analysis.patternCounts.total = 0
          /\ AllZeroPercentages(analysis)
          /\ analysis.epilepsyRisk = 0
    /\ (parsed = "no channels" /\ pc \in {"done", "analysed"}) =>
          /\ Len(channels) = Len(channelNames)
          /\ \A k \in 1..Len(channels) :
                Len(channels[k].events) >= 5 /\ Len(channels[k].events) <= 10

\* the analysis panel has analysed a stored recording without channels
C7_Witness ==
    /\ pc = "analysed"
    /\ channels = << >>
    /\ parsed = "placeholder"
    /\ analysis.epilepsyRisk = 0

\* the windows detector d is to examine on a channel of len samples
WindowsDue(d, len, sr) ==
    {i \in 0..len : i % StepSize(d, sr) = 0 /\ i + WindowSize(d, sr) <= len}

\* C8: each detector examines exactly the windows [i, i + W) for
\* i = 0, S, 2S, ... with i + W <= the length of the channel's samples, the
\* window ending at the last sample included.
C8_WindowsExamined ==
    Detected =>
        \A k \in 1..Len(channels) : \A d \in {"hfo", "ied", "rhythmic"} :
            {i \in 0..Len(channels[k].data) : <<k, d, i>> \in scanned}
               = WindowsDue(d, Len(channels[k].data), rate)

AllZero(data) == Len(data) > 0 /\ \A j \in 1..Len(data) : data[j] = 0

\* C10: a channel of all-zero samples, of any length, has no HFO, IED or
\* rhythmic event while and after the three detectors run on it.
C10_ZeroChannelNoEvents ==
    \A k \in 1..Len(channels) :
        AllZero(channels[k].data) => channels[k].events = << >>

\* the three detectors have run over 10 s of zeros at 250 Hz
C10_Witness ==
    /\ Detected
    /\ Len(channels) = 1
    /\ AllZero(channels[1].data)
    /\ Len(channels[1].data) = ZeroSeconds * sampleRate
    /\ channels[1].events = << >>
    /\ \E i \in 0..Len(channels[1].data) : <<1, "rhythmic", i>> \in scanned

---------------------------------------------------------------------------
(* Further properties of identifyIctalRegions *)

\* all events of the input, and the channels that carry some
InputEvents == AllChannelEvents(channels, 1)

\* exactly four events, all IED, on one channel, within a span of 5 s
FourIEDs ==
    /\ Len(InputEvents) = 4
    /\ \A k \in 1..4 : InputEvents[k].type = IED
    /\ Cardinality({c \in 1..Len(channels) : Len(channels[c].events) > 0}) = 1
    /\ MaxOf(EndsOf(InputEvents)) - MinOf(StartsOf(InputEvents)) <= 5 * sampleRate

\* C11: four IED events on one channel within a 5-second span give exactly
\* one region, with eventCount.ied = 4, eventCount.hfo = 0,
\* eventCount.rhythmic = 0 and severity "low".
C11_FourIEDs ==
    (Returned /\ FourIEDs) =>
        /\ Len(ictalRegions) = 1
        /\ ictalRegions[1].eventCount = [hfo |-> 0, ied |-> 4, rhythmic |-> 0]
        /\ ictalRegions[1].severity = "low"

\* the four IED events have been clustered, 0.4 s apart from each other
C11_Witness ==
    /\ Returned
    /\ FourIEDs
    /\ Len(ictalRegions) = 1
    /\ ictalRegions[1].end - ictalRegions[1].start > 25

\* C12: the confidence of every returned region is an integer from 0 to 95,
\* for every jitter and every cluster, the shortest ones included.
C12_ConfidenceRange ==
    Returned => \A k \in 1..Len(ictalRegions) : ictalRegions[k].confidence \in 0..95

\* a region of 0.1 s on both channels, whose score is capped at 95
C12_Witness ==
    /\ Returned
    /\ \E k \in 1..Len(ictalRegions) :
          /\ ictalRegions[k].end - ictalRegions[k].start = 25
          /\ ictalRegions[k].confidence = 95
          /\ Len(ictalRegions[k].channels) = 2

\* the events are listed by increasing start
SortedByStart(evs) == \A j \in 1..(Len(evs) - 1) : evs[j].start <= evs[j + 1].start

\* what a region says apart from its confidence and its channels
RegionFacts(rs) ==
    {[start |-> r.start, end |-> r.end, eventCount |-> r.eventCount,
      severity |-> r.severity] : r \in Range(rs)}

\* C15: two calls of identifyIctalRegions on the same event list, sorted by
\* start, return the same set of regions as to start, end, eventCount and
\* severity, whatever jitter each call draws
C15_SameRegions ==
    (earlier.run /\ SortedByStart(InputEvents)) =>
        RegionFacts(earlier.regions) = RegionFacts(ictalRegions)

\* two calls returned the same two regions in different orders, with
\* different confidence scores
C15_Witness ==
    /\ earlier.run
    /\ SortedByStart(InputEvents)
    /\ Len(ictalRegions) = 2
    /\ Len(earlier.regions) = 2
    /\ earlier.regions[1].start = ictalRegions[2].start
    /\ earlier.regions[1].confidence # ictalRegions[2].confidence

---------------------------------------------------------------------------
(* Properties of generateAnalysisResults *)

Analysed == pc = "analysed"

\* C13: the epilepsyRisk returned by generateAnalysisResults is an integer
\* from 0 to 100, equals round(100 * (0.4 min(hfo/50, 1) + 0.3 min(ied/50, 1)
\* + 0.1 min(rhythmic/50, 1) + 0.2 min(regions/5, 1))), here the nearest
\* integer to (4 min(hfo, 50) + 3 min(ied, 50) + min(rhythmic, 50)
\* + 20 min(regions, 5)) / 5, and one more event of any type or one more
\* region does not lower it
C13_EpilepsyRisk ==
    Analysed =>
        LET counts  == analysis.patternCounts
            regions == Len(analysis.ictalRegions)
            fifths  == 4 * Min2(counts.hfo, 50) + 3 * Min2(counts.ied, 50)
                       + Min2(counts.rhythmic, 50) + 20 * Min2(regions, 5)
        IN  /\ analysis.epilepsyRisk \in 0..100
            /\ 5 * analysis.epilepsyRisk - fifths \in -2..2
            /\ EpilepsyRisk([counts EXCEPT !.hfo = @ + 1], regions) >= analysis.epilepsyRisk
            /\ EpilepsyRisk([counts EXCEPT !.ied = @ + 1], regions) >= analysis.epilepsyRisk
            /\ EpilepsyRisk([counts EXCEPT !.rhythmic = @ + 1], regions)
                  >= analysis.epilepsyRisk
            /\ EpilepsyRisk(counts, regions + 1) >= analysis.epilepsyRisk

\* a recording with more than 50 events of every type and more than 5
\* regions is scored 100
C13_Witness ==
    /\ Analysed
    /\ analysis.patternCounts.hfo > 50
    /\ analysis.patternCounts.ied > 50
    /\ analysis.patternCounts.rhythmic > 50
    /\ Len(analysis.ictalRegions) > 5
    /\ analysis.epilepsyRisk = 100

Hundred == FromInt(100)

\* C14: the three percentages returned by generateAnalysisResults each lie
\* between 0 and 100, their sum is at most 100, and all three are 0 when the
\* total count is 0
C14_Percentages ==
    Analysed =>
        LET p == analysis.patternPercentages
        IN  /\ \A x \in {p.hfo, p.ied, p.rhythmic} :
                  LessEqDouble(Zero, x) /\ LessEqDouble(x, Hundred)
            /\ LessEqDouble(AddDouble(AddDouble(p.hfo, p.ied), p.rhythmic), Hundred)
            /\ analysis.patternCounts.total = 0 =>
                  p.hfo = Zero /\ p.ied = Zero /\ p.rhythmic = Zero

\* two quotients are the same number
SameRat(a, b) ==
    LET g == Gcd(a.den, b.den)
    IN  a.num * (b.den \div g) = b.num * (a.den \div g)

\* the events of the recording whose type contains sub, as the detectors (or
\* createDemoData) left them on the channels
EventsOfType(sub) ==
    SelectSeq(AllChannelEvents(channels, 1), LAMBDA ev : Includes(ev.type, sub))

Durations(evs) == [j \in 1..Len(evs) |-> Rat(evs[j].end - evs[j].start, 1)]

\* C16: for each type the average amplitude, frequency and duration returned
\* by generateAnalysisResults are the arithmetic means of the amplitude, the
\* frequency and end - start of the recording's events of that type (0 when
\* there is none), and the averages do not depend on anything but the events
C16_PureAggregation ==
    Analysed =>
        /\ \A t \in {<<"hfo", "HFO">>, <<"ied", "IED">>, <<"rhythmic", "Rhythmic">>} :
              LET evs  == EventsOfType(t[2])
                  avgs == analysis.featuresByType[t[1]]
              IN  /\ SameRat(avgs.amplitude, Mean(Field(evs, "amplitude")))
                  /\ SameRat(avgs.frequency, Mean(Field(evs, "frequency")))
                  /\ SameRat(avgs.duration, Mean(Durations(evs)))
        /\ \A pattern \in DrawPatterns :
              analysis.featuresByType = PatternSummary(channels, pattern).featuresByType

---------------------------------------------------------------------------
(* Properties of the detectors' events *)

\* the detector that emits events of a type
DetectorOf(type) ==
    CASE type = HFO -> "hfo" [] type = IED -> "ied" [] type = RHY -> "rhythmic"

\* C17: every event a detector has emitted has end > start, spans exactly a
\* window the detector examined (start = i and end = i + W in samples, i.e.
\* i / sampleRate and (i + W) / sampleRate in seconds), and lies within the
\* channel's recording (0 <= start, end <= number of samples)
C17_EventSpansWindow ==
    parsed = "channels" =>
        \A c \in 1..Len(channels) :
            \A k \in 1..Len(channels[c].events) :
                LET event == channels[c].events[k]
                    W     == WindowSize(DetectorOf(event.type), rate)
                IN  /\ event.end > event.start
                    /\ <<c, DetectorOf(event.type), event.start>> \in scanned
                    /\ event.end = event.start + W
                    /\ 0 <= event.start
                    /\ event.end <= Len(channels[c].data)

\* detection has ended on a recording with an HFO event and a rhythmic event
C17_Witness ==
    /\ parsed = "channels"
    /\ pc = "done"
    /\ \E c \in 1..Len(channels) : \E k \in 1..Len(channels[c].events) :
          channels[c].events[k].type = HFO
    /\ \E c \in 1..Len(channels) : \E k \in 1..Len(channels[c].events) :
          channels[c].events[k].type = RHY

---------------------------------------------------------------------------
(* Properties of handleFileChange *)

\* C18: a step that ends the processing of an uploaded file in failure leaves
\* the stored "eegData" entry as it was and dispatches nothing; the entry
\* changes only by storing the complete result of processEegData, no failure
\* follows that, and "eegDataUpdated" is dispatched only when the complete
\* result is in the store
C18_FailureKeepsEntry ==
    [][/\ pc' = "failed" => (storage' = storage /\ dispatched' = dispatched)
       /\ pc' = "failed" => pc \in {"reading", "idle", "loop", "identify", "done"}
       /\ storage' # storage =>
             /\ pc = "done"
             /\ storage' = [present |-> TRUE, channels |-> channels,
                            ictalRegions |-> ictalRegions]
       /\ dispatched' # dispatched =>
             /\ dispatched' = dispatched + 1
             /\ storage' = [present |-> TRUE, channels |-> channels,
                            ictalRegions |-> ictalRegions]
             /\ Len(channels) > 0]_vars

\* storing the result of a finished detection has failed: the entry stored
\* by an earlier handler is still there and nothing was dispatched
C18_Witness ==
    /\ pc = "failed"
    /\ parsed = "channels"
    /\ \E c \in 1..Len(channels) : Len(channels[c].events) > 0
    /\ Len(ictalRegions) > 0
    /\ storage = PlaceholderEntry
    /\ dispatched = 0
    /\ panelRegions = << >>
    /\ panel = NoPanel
    /\ timers = << >>
    /\ regionsEntry = NoRegionsEntry
    /\ view = NoView

---------------------------------------------------------------------------
(* Properties of detectPatterns *)

DetectorRank(d) == CASE d = "hfo" -> 1 [] d = "ied" -> 2 [] d = "rhythmic" -> 3

\* C21: while detectPatterns runs, the detectors follow each other on a
\* channel in the order HFO, IED, Rhythmic; a step leaves every channel's
\* name, samples and voltage as they were and every channel's event list as a
\* prefix of the new one, to which it appends at most one event, of the
\* running detector's type, to the channel that is being processed
C21_AppendOnly ==
    [][pc = "loop" =>
          /\ Len(channels') = Len(channels)
          /\ \A c \in 1..Len(channels) :
                /\ channels'[c].name = channels[c].name
                /\ channels'[c].data = channels[c].data
                /\ channels'[c].voltage = channels[c].voltage
                /\ Len(channels'[c].events) >= Len(channels[c].events)
                /\ Len(channels'[c].events) <= Len(channels[c].events) + 1
                /\ SubSeq(channels'[c].events, 1, Len(channels[c].events)) = channels[c].events
                /\ Len(channels'[c].events) > Len(channels[c].events) =>
                      /\ c = cur
                      /\ DetectorOf(channels'[c].events[Len(channels'[c].events)].type) = det
          /\ IF cur' = cur
             THEN det' = "none" \/ DetectorRank(det') >= DetectorRank(det)
             ELSE cur' = cur + 1 /\ det = "rhythmic" /\ det' = "hfo"
          /\ det' # det => DetectorRank(det) = 3 \/ DetectorRank(det') = DetectorRank(det) + 1]_vars

\* the rhythmic detector has appended an event behind the HFO events of the
\* channel
C21_Witness ==
    /\ pc = "loop"
    /\ det = "rhythmic"
    /\ \E k \in 2..Len(channels[cur].events) :
          /\ channels[cur].events[k].type = RHY
          /\ channels[cur].events[k - 1].type = HFO

\* C22: a step of detection on one channel leaves every other channel as it
\* was, and when detectPatterns has returned every channel holds the events
\* that the three detectors give on its samples alone, whatever the other
\* channel is and whether it was processed before or after it
C22_ChannelsIndependent ==
    [][pc = "loop" =>
          /\ \A c \in 1..Len(channels) : c # cur => channels'[c] = channels[c]
          /\ pc' = "identify" =>
                \A c \in 1..Len(channels') :
                    \A freq \in IedFrequencies :
                        channels'[c].events = DetectOn(channels'[c].data, rate, freq)]_vars

\* detectPatterns has returned on two channels of different samples: the
\* second has an HFO event at a time that an HFO event of the first covers,
\* and the first has a rhythmic event that the second has not
C22_Witness ==
    /\ pc = "identify"
    /\ Len(channels) = 2
    /\ channels[1].data # channels[2].data
    /\ \E j \in 1..Len(channels[1].events) : \E k \in 1..Len(channels[2].events) :
          /\ channels[1].events[j].type = HFO
          /\ channels[2].events[k].type = HFO
          /\ channels[1].events[j].start = channels[2].events[k].start
    /\ \E j \in 1..Len(channels[1].events) : channels[1].events[j].type = RHY
    /\ \A k \in 1..Len(channels[2].events) : channels[2].events[k].type # RHY

---------------------------------------------------------------------------
(* Properties of detectIEDs *)

\* the windows detectIEDs has examined on channel c
IedWindows(c) == {i \in 0..Len(channels[c].data) : <<c, "ied", i>> \in scanned}

\* C23: in every window detectIEDs examines, the slopes are those from the
\* sample of maximum absolute amplitude to the samples 5 before and 5 after
\* it when 5 <= maxPos <= W - 6, and 0 otherwise
C23_SlopesComputed ==
    \A c \in 1..Len(channels) : \A i \in IedWindows(c) :
        LET data   == channels[c].data
            W      == WindowSize("ied", rate)
            maxPos == MaxPos(data, i, W)
            margin == 5 <= maxPos /\ maxPos <= W - 6
        IN  /\ SlopeBefore5(data, i, W) =
                 IF margin THEN At(data, i + maxPos) - At(data, i + maxPos - 5) ELSE 0
            /\ SlopeAfter5(data, i, W) =
                 IF margin THEN At(data, i + maxPos) - At(data, i + maxPos + 5) ELSE 0

---------------------------------------------------------------------------
(* Properties of the copies of identifyIctalRegions *)

\* what a list of regions says apart from the confidence and the order
RegionSet(rs) ==
    {[start |-> r.start, end |-> r.end, channels |-> Range(r.channels),
      eventCount |-> r.eventCount, severity |-> r.severity] : r \in Range(rs)}

\* C24: on the same channels and events the copies of identifyIctalRegions in
\* the EEG processor, the analysis panel and the ictal-regions panel return
\* the same number of regions and the same set of regions as to start, end,
\* channel set, eventCount and severity, whatever jitter each draws
C24_CopiesAgree ==
    pc = "listed" =>
        /\ RegionSet(analysis.ictalRegions) = RegionSet(ictalRegions)
        /\ RegionSet(panelRegions) = RegionSet(ictalRegions)
        /\ Len(analysis.ictalRegions) = Len(ictalRegions)
        /\ Len(panelRegions) = Len(ictalRegions)

\* the three copies returned the same two regions, the panel's in another
\* order and with another confidence than the processor's
C24_Witness ==
    /\ pc = "listed"
    /\ Len(ictalRegions) = 2
    /\ Len(panelRegions) = 2
    /\ Len(analysis.ictalRegions) = 2
    /\ panelRegions[1].start = ictalRegions[2].start
    /\ panelRegions[1].confidence # ictalRegions[2].confidence

\* the values of i in detectIEDs' loop on len samples
IedLoop(len) ==
    {i \in 0..len : i % StepSize("ied", sampleRate) = 0
                    /\ InLoop(i, len, WindowSize("ied", sampleRate))}

\* some window that detectIEDs examines on a spike recording meets its
\* acceptance condition: maxAmp > 50, both slopes above 10 in absolute value
\* and of different signs
IedAcceptable ==
    \E data \in SpikeInputs : \E i \in IedLoop(Len(data)) :
        IsIED(data, i, WindowSize("ied", sampleRate))

\* C25: the acceptance condition of detectIEDs can be met, the slopes being
\* measured from the sample of maximum absolute amplitude: when detectIEDs
\* has returned, some window of the spike recordings was acceptable
C25_CanEmit == (pc = "loop" /\ det = "rhythmic") => IedAcceptable

---------------------------------------------------------------------------
(* Properties of identifyIctalRegions under reordering *)

\* C26: identifyIctalRegions returns the same set of regions, as to start,
\* end, channel set, eventCount and severity, for a recording and for the
\* same recording with its channels and the events of each channel in any
\* other order, events of equal start included
C26_OrderIndependent ==
    pc = "permuted" => RegionSet(earlier.regions) = RegionSet(ictalRegions)

\* the second call saw the long and the short event that start together in
\* the other order, and both calls returned a region that reaches over the
\* event at 12 s
C26_Witness ==
    /\ pc = "permuted"
    /\ Len(ictalRegions) = 1
    /\ Len(earlier.regions) = 1
    /\ ictalRegions[1].start = 0
    /\ ictalRegions[1].end >= 3025
    /\ \E c \in 1..Len(channels) :
          /\ Len(channels[c].events) >= 3
          /\ channels[c].events[1].end = 750
          /\ channels[c].events[2].end = 25
          /\ channels[c].events[2].start = 0

\* C27: any two regions identifyIctalRegions returns are more than 10 s
\* apart (so their time ranges are disjoint), and no event of the input lies
\* in the cluster, or within the time range, of two regions
C27_RegionsApart ==
    Returned =>
        /\ \A j \in 1..Len(ictalRegions) : \A k \in 1..Len(ictalRegions) :
              j # k =>
                 \/ ictalRegions[j].end + 10 * sampleRate < ictalRegions[k].start
                 \/ ictalRegions[k].end + 10 * sampleRate < ictalRegions[j].start
        /\ \A event \in Range(CollectEvents(channels, 1)) :
              /\ Cardinality({k \in 1..Len(ictalRegions) :
                                \E c \in ClustersFor(ictalRegions[k]) :
                                    event \in Range(c.events)}) <= 1
              /\ Cardinality({k \in 1..Len(ictalRegions) :
                                /\ ictalRegions[k].start <= event.start
                                /\ event.end <= ictalRegions[k].end}) <= 1

\* two regions were returned, 14.7 s apart, each with the events of one burst
C27_Witness ==
    /\ Returned
    /\ Len(ictalRegions) = 2
    /\ \E j \in 1..2 : \E k \in 1..2 :
          ictalRegions[k].start - ictalRegions[j].end = 14 * sampleRate + 175
    /\ \A event \in Range(CollectEvents(channels, 1)) :
          \E k \in 1..2 : \E c \in ClustersFor(ictalRegions[k]) : event \in Range(c.events)

---------------------------------------------------------------------------
(* Properties of the analysis panel *)

\* C28: whenever localStorage holds no "eegData" and no timeout of the
\* analysis panel is pending it holds no "ictalRegions" either, and a stored
\* "ictalRegions" was computed from the "eegData" that is stored now
C28_RegionsFollowData ==
    /\ (~storage.present /\ timers = << >>) => ~regionsEntry.present
    /\ regionsEntry.present => (storage.present /\ regionsEntry.of = storage)

\* C29: whenever isAnalyzing is false and the panel's eegData is set, its
\* analysisResults are set and were computed from that eegData
C29_ResultsFollowData ==
    (~panel.isAnalyzing /\ panel.eegData.present) =>
        /\ panel.analysisResults.present
        /\ panel.analysisResults.of = panel.eegData

---------------------------------------------------------------------------
(* Properties of the visualization panel *)

\* C30: on a recording of duration D >= 60 shown from the window [0, 60],
\* after any sequence of zoom, pan, skip and playback steps the time window
\* satisfies 0 <= start < end <= D.
C30_WindowInRange ==
    (pc = "viewing" /\ view.duration >= 60) =>
        /\ TimeLeq(TimeOf(0, 1), view.timeWindow[1])
        /\ TimeLess(view.timeWindow[1], view.timeWindow[2])
        /\ TimeLeq(view.timeWindow[2], TimeOf(view.duration, 1))

====
